---- MODULE Spec2Model ----
(***************************************************************************)
(* A model of the icypeas language core: the lexer                         *)
(* (src/src/lexer/mod.rs), the precedence-climbing parser                  *)
(* (src/src/parser/parser.rs) and the lazy, environment-based evaluator    *)
(* (src/src/interpreter/mod.rs).                                           *)
(*                                                                         *)
(* A run of the model is one run of the pipeline of `run` in main.rs:      *)
(* Lexer::lex on a source text, Parser::parse on a token stream, then      *)
(* Interpreter::interpret, one statement per step.  The lexer, the parser  *)
(* and the evaluator are loops and recursive functions in the source and   *)
(* recursive operators here; the mutable fields they work on (Lexer.index, *)
(* Parser.index, Interpreter.environment, the reference-counted            *)
(* Environment cells) are threaded through the operators as explicit       *)
(* values.                                                                 *)
(***************************************************************************)
EXTENDS Integers, Sequences, FiniteSets, TLC

(***************************************************************************)
(* Bounds of the model.                                                    *)
(***************************************************************************)
\* Value::Integer is an i128; the model keeps two's-complement arithmetic
\* but at a width TLC can compute with.
IntBits == 12
\* `**` converts its exponent to a u32; the model keeps the conversion but
\* at a width below IntBits, so that an exponent can be out of range.
ExpBits == 4
\* evaluate/force recursion deeper than this exhausts the call stack.
MaxDepth == 24

Pow2(n) == 2 ^ n
INT_MAX == Pow2(IntBits - 1) - 1
INT_MIN == -Pow2(IntBits - 1)
U32_MAX == Pow2(ExpBits) - 1

(***************************************************************************)
(* Tokens (model/token.rs, token_kind.rs, token_value.rs, location.rs).    *)
(***************************************************************************)
Location(row, column) == [row |-> row, column |-> column]
\* Error.location is an Option: this is its None.
NoLocation == [none |-> TRUE]

TokenValueIdentifier(name) == [tag |-> "Identifier", v |-> name]
TokenValueBoolean(b) == [tag |-> "Boolean", v |-> b]
TokenValueInteger(i) == [tag |-> "Integer", v |-> i]
\* An f64 is kept as the decimal it was written as: mantissa * 10^(-scale).
TokenValueFloat(mantissa, scale) == [tag |-> "Float", v |-> <<mantissa, scale>>]
TokenValueString(s) == [tag |-> "String", v |-> s]
TokenValueNone == [tag |-> "None"]

Token(kind, value) == [kind |-> kind, value |-> value]

PrimaryKinds ==
    {"True", "False", "LeftParenthesis", "Null", "Identifier", "Integer",
     "String"}

is_primary(kind) == kind \in PrimaryKinds

get_identifier_name(token) ==
    IF token.value.tag = "Identifier"
    THEN [some |-> TRUE, name |-> token.value.v]
    ELSE [some |-> FALSE]

(***************************************************************************)
(* Precedence (parser/precedence.rs).  The derived Ord of the enum is the  *)
(* order of its variants.  parser.rs names two variants, Prefix and        *)
(* Application, that precedence.rs does not list; they are placed where    *)
(* the specification's table puts them, above BitwiseAnd.                  *)
(***************************************************************************)
PrecedenceNone == 0
PrecedenceAssignment == 1
PrecedenceConditional == 2
PrecedenceComparison == 3
PrecedenceTerm == 4
PrecedenceFactor == 5
PrecedenceExponentiation == 6
PrecedenceBitwiseOr == 7
PrecedenceBitwiseXor == 8
PrecedenceBitwiseAnd == 9
PrecedencePrefix == 10
PrecedenceApplication == 11
PrecedencePrimary == 12

\* PrecedenceFrom with the rows of `+ -` and `* / %` exchanged.
PrecedenceFromExchanged(kind) ==
    CASE kind = "Equal" -> PrecedenceAssignment
      [] kind = "If" -> PrecedenceConditional
      [] kind \in {"BangEqual", "EqualEqual", "Less", "LessEqual",
                   "Greater", "GreaterEqual"} -> PrecedenceComparison
      [] kind \in {"Plus", "Minus"} -> PrecedenceFactor
      [] kind \in {"Star", "Slash", "Percent"} -> PrecedenceTerm
      [] kind = "StarStar" -> PrecedenceExponentiation
      [] kind = "Pipe" -> PrecedenceBitwiseOr
      [] kind = "Caret" -> PrecedenceBitwiseXor
      [] kind = "Ampersand" -> PrecedenceBitwiseAnd
      [] kind \in {"At", "Colon", "Hash"} -> PrecedencePrimary
      [] OTHER -> PrecedenceNone

PrecedenceFrom(kind) ==
    CASE kind = "Equal" -> PrecedenceAssignment
      [] kind = "If" -> PrecedenceConditional
      [] kind \in {"BangEqual", "EqualEqual", "Less", "LessEqual",
                   "Greater", "GreaterEqual"} -> PrecedenceComparison
      [] kind \in {"Plus", "Minus"} -> PrecedenceTerm
      [] kind \in {"Star", "Slash", "Percent"} -> PrecedenceFactor
      [] kind = "StarStar" -> PrecedenceExponentiation
      [] kind = "Pipe" -> PrecedenceBitwiseOr
      [] kind = "Caret" -> PrecedenceBitwiseXor
      [] kind = "Ampersand" -> PrecedenceBitwiseAnd
      [] kind \in {"At", "Colon", "Hash"} -> PrecedencePrimary
      [] OTHER -> PrecedenceNone

(***************************************************************************)
(* Errors (error/error.rs): a kind and an optional location.  The help     *)
(* text is not modelled.                                                   *)
(***************************************************************************)
Error(kind, location) == [kind |-> kind, location |-> location]

(***************************************************************************)
(* Expressions and statements (model/expression.rs, model/statement.rs).   *)
(***************************************************************************)
Unary(operator, expression, location) ==
    [kind |-> "Unary", operator |-> operator, expression |-> expression,
     location |-> location]
Binary(left, operator, right, location) ==
    [kind |-> "Binary", left |-> left, operator |-> operator, right |-> right,
     location |-> location]
Call(function, argument, location) ==
    [kind |-> "Call", function |-> function, argument |-> argument,
     location |-> location]
Identifier(token, location) ==
    [kind |-> "Identifier", token |-> token, location |-> location]
\* branches is a sequence of <<condition, body>> pairs.
If(branches, otherwise, location) ==
    [kind |-> "If", branches |-> branches, otherwise |-> otherwise,
     location |-> location]
Lambda(parameter, body, location) ==
    [kind |-> "Lambda", parameter |-> parameter, body |-> body,
     location |-> location]
Literal(token, location) ==
    [kind |-> "Literal", token |-> token, location |-> location]

Declaration(name, types, location) ==
    [kind |-> "Declaration", name |-> name, types |-> types,
     location |-> location]
Definition(name, parameter, body, location) ==
    [kind |-> "Definition", name |-> name, parameter |-> parameter,
     body |-> body, location |-> location]
ExpressionStatement(expression, location) ==
    [kind |-> "Expression", expression |-> expression, location |-> location]
Variable(name, body, location) ==
    [kind |-> "Variable", name |-> name, body |-> body, location |-> location]

(***************************************************************************)
(* The parser (parser/parser.rs).  Parser.tokens is the parameter          *)
(* `tokens`, Parser.index the parameter `index` (1-based here) and the     *)
(* field `index` of every result.  A result is either                      *)
(*   [ok |-> TRUE, node, index]   or   [ok |-> FALSE, error, index].       *)
(***************************************************************************)
ParseOk(node, index) == [ok |-> TRUE, node |-> node, index |-> index]
ParseErr(error, index) == [ok |-> FALSE, error |-> error, index |-> index]

is_eof(tokens, index) == index > Len(tokens)

current_is(tokens, index, kind) ==
    index <= Len(tokens) /\ tokens[index].kind = kind

next_is(tokens, index, n, kind) ==
    index + n <= Len(tokens) /\ tokens[index + n].kind = kind

is_end_of_expression(tokens, index) ==
    \/ is_eof(tokens, index)
    \/ current_is(tokens, index, "Newline")
    \/ current_is(tokens, index, "Semicolon")

\* tokens[index..].iter().find(|t| !pred(t)): the position of the first
\* token at or after index whose kind is not in `kinds`, 0 if there is none.
RECURSIVE FindNotIn(_, _, _)
FindNotIn(tokens, index, kinds) ==
    IF index > Len(tokens) THEN 0
    ELSE IF tokens[index].kind \notin kinds THEN index
    ELSE FindNotIn(tokens, index + 1, kinds)

(***************************************************************************)
(* Every parse_* method returns a Result.  An operator below that takes    *)
(* the Result of an earlier step as a parameter models the code after the  *)
(* `?` of that step: it returns the error unchanged when the step failed.  *)
(***************************************************************************)
RECURSIVE parse_expression(_, _, _)
RECURSIVE parse_expression_loop(_, _, _)
RECURSIVE parse_prefix(_, _)
RECURSIVE parse_infix(_, _, _, _)
RECURSIVE parse_call(_, _)
RECURSIVE parse_if(_, _)
RECURSIVE parse_if_branches(_, _, _)
RECURSIVE parse_lambda(_, _)

\* CurryFrom without the `.rev()`: the fold runs left to right, so the
\* last parameter ends up outermost.
RECURSIVE CurryFromForward(_, _, _, _)
CurryFromForward(parameters, from, body, location) ==
    IF from > Len(parameters) THEN body
    ELSE CurryFromForward(parameters, from + 1,
                          Lambda(parameters[from], body, location), location)

\* The right-to-left fold of parse_lambda and curry_definition:
\* parameters[from..] wrapped around body, the first of them outermost.
RECURSIVE CurryFrom(_, _, _, _)
CurryFrom(parameters, from, body, location) ==
    IF from > Len(parameters) THEN body
    ELSE Lambda(parameters[from],
                CurryFrom(parameters, from + 1, body, location), location)

\* The while loop of parse_lambda: the run of Identifier tokens at index.
RECURSIVE IdentifierRun(_, _)
IdentifierRun(tokens, index) ==
    IF current_is(tokens, index, "Identifier")
    THEN <<tokens[index]>> \o IdentifierRun(tokens, index + 1)
    ELSE <<>>

\* parse_lambda after `let body = self.parse_expression(Precedence::None)?`.
curry_lambda(parameters, body, location) ==
    IF ~body.ok THEN body
    ELSE ParseOk(CurryFrom(parameters, 1, body.node, location), body.index)

parse_lambda(tokens, index) ==
    IF is_eof(tokens, index)
    THEN ParseErr(Error("UnexpectedEndOfFile", NoLocation), index)
    ELSE
    LET parameters == IdentifierRun(tokens, index)
        location == IF parameters = <<>> THEN tokens[index].location
                    ELSE parameters[Len(parameters)].location
        after == index + Len(parameters)
    IN  IF ~current_is(tokens, after, "Dollar")
        THEN ParseErr(Error("ExpectedExpression", location), after)
        ELSE curry_lambda(parameters,
                          parse_expression(tokens, after + 1, PrecedenceNone),
                          location)

\* parse_expression_loop stopping at an operator on `<` instead of `<=`:
\* an operator of the same precedence as the caller's is taken into the
\* right operand.
parse_expression_loop_strict(tokens, left, precedence) ==
    IF ~left.ok \/ is_eof(tokens, left.index) THEN left
    ELSE LET current_precedence == PrecedenceFrom(tokens[left.index].kind)
         IN  IF \/ current_precedence = PrecedenceNone
                \/ current_precedence < precedence
             THEN left
             ELSE parse_expression_loop(tokens,
                      parse_infix(tokens, left.index, left.node,
                                  current_precedence),
                      precedence)

\* The `while !self.is_eof()` loop of parse_expression, entered with the
\* Result of parse_prefix or of the parse_infix of the iteration before.
parse_expression_loop(tokens, left, precedence) ==
    IF ~left.ok \/ is_eof(tokens, left.index) THEN left
    ELSE LET current_precedence == PrecedenceFrom(tokens[left.index].kind)
         IN  IF current_precedence <= precedence THEN left
             ELSE parse_expression_loop(tokens,
                      parse_infix(tokens, left.index, left.node,
                                  current_precedence),
                      precedence)

parse_expression(tokens, index, precedence) ==
    parse_expression_loop(tokens, parse_prefix(tokens, index), precedence)

\* The Bang | Minus arm of parse_prefix after `parse_expression(Prefix)?`.
prefix_unary(token, right) ==
    IF ~right.ok THEN right
    ELSE ParseOk(Unary(token, right.node, token.location), right.index)

\* The LeftParenthesis arm of parse_prefix after `parse_expression(None)?`.
prefix_parenthesis(tokens, expression, location) ==
    IF ~expression.ok THEN expression
    ELSE IF ~current_is(tokens, expression.index, "RightParenthesis")
    THEN ParseErr(Error("MissingClosingParenthesis", location),
                  expression.index)
    ELSE ParseOk(expression.node, expression.index + 1)

parse_prefix(tokens, index) ==
    IF is_eof(tokens, index)
    THEN ParseErr(Error("UnexpectedEndOfFile", NoLocation), index)
    ELSE
    LET token == tokens[index]
        location == token.location
    IN  CASE token.kind \in {"Bang", "Minus"} ->
               prefix_unary(token,
                   parse_expression(tokens, index + 1, PrecedencePrefix))
          [] token.kind = "Identifier" ->
               LET found == FindNotIn(tokens, index, {"Identifier"})
               IN  IF found # 0 /\ tokens[found].kind = "Dollar"
                   THEN parse_lambda(tokens, index)
                   ELSE parse_call(tokens,
                            ParseOk(Identifier(token, location), index + 1))
          [] token.kind = "LeftParenthesis" ->
               prefix_parenthesis(tokens,
                   parse_expression(tokens, index + 1, PrecedenceNone),
                   location)
          [] token.kind \in {"True", "False", "Null", "Float", "Integer",
                             "String", "Underscore"} ->
               ParseOk(Literal(token, location), index + 1)
          [] token.kind = "If" -> parse_if(tokens, index + 1)
          [] OTHER -> ParseErr(Error("ExpectedExpression", location), index)

\* parse_infix after `let right = self.parse_expression(precedence)?`.
infix_binary(left, operator, right) ==
    IF ~right.ok THEN right
    ELSE ParseOk(Binary(left, operator, right.node, operator.location),
                 right.index)

parse_infix(tokens, index, left, precedence) ==
    IF is_eof(tokens, index)
    THEN ParseErr(Error("UnexpectedEndOfFile", NoLocation), index)
    ELSE infix_binary(left, tokens[index],
                      parse_expression(tokens, index + 1, precedence))

\* One iteration of the loop of parse_call after
\* `let argument = self.parse_expression(Precedence::Application)?`.
call_argument(expression, argument) ==
    IF ~argument.ok THEN argument
    ELSE ParseOk(Call(expression, argument.node, argument.node.location),
                 argument.index)

\* The `while !self.is_end_of_expression()` loop of parse_call, entered
\* with the callee built so far.
parse_call(tokens, expression) ==
    IF ~expression.ok \/ is_end_of_expression(tokens, expression.index)
    THEN expression
    ELSE IF tokens[expression.index].kind \in
              {"Identifier", "LeftParenthesis", "True", "False", "Null",
               "Float", "Integer", "String", "Underscore", "If"}
    THEN parse_call(tokens,
             call_argument(expression.node,
                 parse_expression(tokens, expression.index,
                                  PrecedenceApplication)))
    ELSE expression

\* A condition's body: the code after `let body = self.parse_expression(
\* Precedence::None)?`, giving the pair pushed onto `branches`.
branch_node(condition, body) ==
    IF ~body.ok THEN body
    ELSE ParseOk(<<condition, body.node>>, body.index)

\* The code after `let condition = self.parse_expression(Precedence::None)?`
\* of parse_if: the `then` keyword and the body.
branch_body(tokens, condition, location) ==
    IF ~condition.ok THEN condition
    ELSE IF ~current_is(tokens, condition.index, "Then")
    THEN ParseErr(Error("IncompleteIf", location), condition.index)
    ELSE branch_node(condition.node,
             parse_expression(tokens, condition.index + 1, PrecedenceNone))

\* `branches.push((Box::new(condition), Box::new(body)))`.
push_branch(branches, branch) ==
    IF ~branch.ok THEN branch
    ELSE ParseOk(Append(branches, branch.node), branch.index)

\* The `Ok(Expression::new(ExpressionKind::If { .. }))` of parse_if.
if_node(branches, otherwise, location) ==
    IF ~otherwise.ok THEN otherwise
    ELSE ParseOk(If(branches, otherwise.node, location), otherwise.index)

\* The `while self.current_is(Elif)` loop of parse_if and what follows it,
\* entered with the branches parsed so far.
parse_if_branches(tokens, branches, location) ==
    IF ~branches.ok THEN branches
    ELSE IF current_is(tokens, branches.index, "Elif")
    THEN parse_if_branches(tokens,
             push_branch(branches.node,
                 branch_body(tokens,
                     parse_expression(tokens, branches.index + 1,
                                      PrecedenceNone),
                     location)),
             location)
    ELSE IF ~current_is(tokens, branches.index, "Else")
    THEN ParseErr(Error("IncompleteIf", location), branches.index)
    ELSE if_node(branches.node,
                 parse_expression(tokens, branches.index + 1, PrecedenceNone),
                 location)

\* parse_if taking the location of the `if` keyword.
parse_if_keyword(tokens, index) ==
    IF is_eof(tokens, index)
    THEN ParseErr(Error("UnexpectedEndOfFile", NoLocation), index)
    ELSE parse_if_branches(tokens,
             push_branch(<<>>,
                 branch_body(tokens,
                     parse_expression(tokens, index, PrecedenceNone),
                     tokens[index - 1].location)),
             tokens[index - 1].location)


parse_if(tokens, index) ==
    IF is_eof(tokens, index)
    THEN ParseErr(Error("UnexpectedEndOfFile", NoLocation), index)
    ELSE parse_if_branches(tokens,
             push_branch(<<>>,
                 branch_body(tokens,
                     parse_expression(tokens, index, PrecedenceNone),
                     tokens[index].location)),
             tokens[index].location)

curry_definition(name, parameters, body, location) ==
    IF parameters = <<>>
    THEN [ok |-> FALSE, error |-> Error("MissingParameter", location)]
    ELSE [ok |-> TRUE,
          node |-> Definition(name, parameters[1],
                              CurryFrom(parameters, 2, body, location),
                              location)]

\* The `while let Some(t) = self.current()` loop of parse_definition: the
\* run of primary tokens at index.
RECURSIVE PrimaryRun(_, _)
PrimaryRun(tokens, index) ==
    IF index <= Len(tokens) /\ is_primary(tokens[index].kind)
    THEN <<tokens[index]>> \o PrimaryRun(tokens, index + 1)
    ELSE <<>>

\* The expression statement parse_definition returns for a line that is
\* no definition, after `self.parse_expression(Precedence::None)?`.
expression_statement(expression) ==
    IF ~expression.ok THEN expression
    ELSE ParseOk(ExpressionStatement(expression.node,
                                     expression.node.location),
                 expression.index)

\* parse_definition after `let body = self.parse_expression(None)?`.
definition_statement(name, parameters, body) ==
    IF ~body.ok THEN body
    ELSE LET curried == curry_definition(name, parameters, body.node,
                                         body.node.location)
         IN  IF ~curried.ok THEN ParseErr(curried.error, body.index)
             ELSE ParseOk(curried.node, body.index)

\* parse_definition without its check of the token after the name.
parse_definition_unguarded(tokens, index) ==
    LET found == FindNotIn(tokens, index, PrimaryKinds)
    IN  IF \/ ~current_is(tokens, index, "Identifier")
           \/ found = 0
           \/ tokens[found].kind # "Equal"
        THEN expression_statement(
                 parse_expression(tokens, index, PrecedenceNone))
        ELSE
        LET parameters == PrimaryRun(tokens, index + 1)
            start == index + 1 + Len(parameters) + 1
        IN  definition_statement(tokens[index], parameters,
                parse_expression(tokens, start, PrecedenceNone))

parse_definition(tokens, index) ==
    LET found == FindNotIn(tokens, index, PrimaryKinds)
    IN  IF \/ ~current_is(tokens, index, "Identifier")
           \/ found = 0
           \/ tokens[found].kind # "Equal"
        THEN expression_statement(
                 parse_expression(tokens, index, PrecedenceNone))
        ELSE IF ~next_is(tokens, index, 1, "Identifier")
        THEN ParseErr(Error("ExpectedExpression", tokens[index].location),
                      index)
        ELSE
        LET parameters == PrimaryRun(tokens, index + 1)
            \* one advance past the name, one per parameter, one past `=`
            start == index + 1 + Len(parameters) + 1
        IN  definition_statement(tokens[index], parameters,
                parse_expression(tokens, start, PrecedenceNone))

\* The `while` loop of parse_declaration: the run of type-name tokens.
RECURSIVE TypeRun(_, _)
TypeRun(tokens, index) ==
    IF current_is(tokens, index, "Underscore")
       \/ current_is(tokens, index, "Identifier")
    THEN <<tokens[index]>> \o TypeRun(tokens, index + 1)
    ELSE <<>>

parse_declaration(tokens, index) ==
    IF ~next_is(tokens, index, 1, "Colon")
    THEN parse_definition(tokens, index)
    ELSE IF is_eof(tokens, index)
    THEN ParseErr(Error("UnexpectedEndOfFile", NoLocation), index)
    ELSE
    LET name == tokens[index]
        location == name.location
    IN  IF name.kind = "Identifier"
        THEN LET types == TypeRun(tokens, index + 2)
             IN  ParseOk(Declaration(name, types, location),
                         index + 2 + Len(types))
        ELSE ParseErr(Error("ExpectedExpression", location), index)

parse_statement(tokens, index) == parse_declaration(tokens, index)

\* `statements.push(self.parse_statement()?)`.
push_statement(statements, statement) ==
    IF ~statement.ok
    THEN [ok |-> FALSE, error |-> statement.error, index |-> statement.index]
    ELSE [ok |-> TRUE, statements |-> Append(statements, statement.node),
          index |-> statement.index]

\* The `while !self.is_eof()` loop of Parser::parse, entered with the
\* statements parsed so far: [ok |-> TRUE, statements, index] or
\* [ok |-> FALSE, error, index].
RECURSIVE parse_loop(_, _)
parse_loop(tokens, parsed) ==
    IF ~parsed.ok \/ is_eof(tokens, parsed.index) THEN parsed
    ELSE IF current_is(tokens, parsed.index, "Newline")
    THEN parse_loop(tokens, [parsed EXCEPT !.index = @ + 1])
    ELSE parse_loop(tokens,
             push_statement(parsed.statements,
                            parse_statement(tokens, parsed.index)))

\* parse returning after the first statement.
parse_first(tokens) == push_statement(<<>>, parse_statement(tokens, 1))


parse(tokens) ==
    parse_loop(tokens, [ok |-> TRUE, statements |-> <<>>, index |-> 1])

(***************************************************************************)
(* The lexer (lexer/mod.rs).  A source is a sequence of characters, each a *)
(* string of length one.  The Lexer is [index, row, bol]; index and bol    *)
(* count from 1 where the code counts from 0.  A result is                 *)
(* [status |-> "Ok", ...], [status |-> "Err", error] or, when a loop of    *)
(* the lexer never ends, [status |-> "Abort", reason].                     *)
(***************************************************************************)
\* The None of Lexer::current and Lexer::next.
NoChar == "EOF"

DigitChars == <<"0", "1", "2", "3", "4", "5", "6", "7", "8", "9">>

is_ascii_digit(c) == \E i \in 1..Len(DigitChars) : DigitChars[i] = c

DigitValue(c) == (CHOOSE i \in 1..Len(DigitChars) : DigitChars[i] = c) - 1

\* The letters the sources of the model are written with.
is_alphabetic(c) ==
    c \in {"a", "b", "c", "d", "e", "f", "g", "h", "i", "j", "k", "l", "m",
           "n", "o", "p", "q", "r", "s", "t", "u", "v", "w", "x", "y", "z"}

is_alphanumeric(c) == is_alphabetic(c) \/ is_ascii_digit(c)

is_whitespace(c) == c \in {" ", "\t", "\r", "\n"}

LexerNew == [index |-> 1, row |-> 0, bol |-> 1]

LexOk(token, L) == [status |-> "Ok", token |-> token, L |-> L]
LexErr(error) == [status |-> "Err", error |-> error]
LexAbort(reason) == [status |-> "Abort", reason |-> reason]

lexer_current(source, L) ==
    IF L.index <= Len(source) THEN source[L.index] ELSE NoChar

lexer_next(source, L, n) ==
    IF L.index + n <= Len(source) THEN source[L.index + n] ELSE NoChar

lexer_advance(L) == [L EXCEPT !.index = @ + 1]

\* Lexer::consume: whether the next character is c, and the lexer after.
consume(source, L, c) ==
    IF lexer_next(source, L, 1) = c
    THEN [consumed |-> TRUE, L |-> lexer_advance(L)]
    ELSE [consumed |-> FALSE, L |-> L]

\* Lexer::location: `self.index.saturating_sub(self.bol)`.
lexer_location(L) ==
    Location(L.row, IF L.index >= L.bol THEN L.index - L.bol ELSE 0)

\* `self.source[from..=to].iter().collect::<String>()`
RECURSIVE Collect(_, _, _)
Collect(source, from, to) ==
    IF from > to THEN ""
    ELSE source[from] \o Collect(source, from + 1, to)

\* `while let Some(c) = self.next(1) { if !c.is_ascii_digit() { break; }
\* self.advance(); }`
RECURSIVE skip_digits(_, _)
skip_digits(source, L) ==
    IF is_ascii_digit(lexer_next(source, L, 1))
    THEN skip_digits(source, lexer_advance(L))
    ELSE L

\* str::parse::<i128> of source[from..=to], whose first character is a
\* digit: the number the digits write, an error when a character is no
\* digit or the number does not fit.
RECURSIVE DigitsValue(_, _, _, _)
DigitsValue(source, from, to, value) ==
    IF from > to THEN value
    ELSE DigitsValue(source, from + 1, to, 10 * value + DigitValue(source[from]))

ParseInteger(source, from, to) ==
    IF \A i \in from..to : is_ascii_digit(source[i])
    THEN LET n == DigitsValue(source, from, to, 0)
         IN  IF n <= INT_MAX THEN [ok |-> TRUE, v |-> n] ELSE [ok |-> FALSE]
    ELSE [ok |-> FALSE]

\* str::parse::<f64> of source[from..=to], digits with one `.` among
\* them: the decimal as it is written, the digits without the `.` and
\* the number of digits after it.
ParseFloat(source, from, to) ==
    LET dot == CHOOSE i \in from..to : source[i] = "."
    IN  TokenValueFloat(
            DigitsValue(source, dot + 1, to,
                        DigitsValue(source, from, dot - 1, 0)),
            to - dot)

\* Lexer::consume_number.  After `self.consume('.')` the index is at the
\* `.`, and the code examines `self.next(2)`, the character two after it.
consume_number(source, L) ==
    LET start == L.index
        dot == consume(source, skip_digits(source, L), ".")
    IN  IF dot.consumed /\ is_ascii_digit(lexer_next(source, dot.L, 2))
        THEN LET end == skip_digits(source, dot.L)
             IN  LexOk(Token("Float", ParseFloat(source, start, end.index)),
                       end)
        ELSE LET number == ParseInteger(source, start, dot.L.index)
             IN  IF number.ok
                 THEN LexOk(Token("Integer", TokenValueInteger(number.v)),
                            dot.L)
                 ELSE LexErr(Error("NotANumber", lexer_location(dot.L)))

\* The loop of consume_string: the lexer at the closing quote, or at the
\* last character when there is none.
RECURSIVE skip_string(_, _)
skip_string(source, L) ==
    IF lexer_next(source, L, 1) = NoChar \/ lexer_next(source, L, 1) = "\""
    THEN L
    ELSE skip_string(source, lexer_advance(L))

consume_string(source, L) ==
    LET start == L.index + 1
        last == skip_string(source, L)
    IN  IF lexer_next(source, last, 1) = "\""
        THEN LexOk(Token("String",
                         TokenValueString(Collect(source, start, last.index))),
                   lexer_advance(last))
        ELSE LexErr(Error("UnterminatedString", lexer_location(last)))

\* The loop of consume_identifier.
RECURSIVE skip_identifier(_, _)
skip_identifier(source, L) ==
    IF is_alphanumeric(lexer_next(source, L, 1))
       \/ lexer_next(source, L, 1) = "_"
    THEN skip_identifier(source, lexer_advance(L))
    ELSE L

Keywords ==
    [if |-> Token("If", TokenValueNone),
     then |-> Token("Then", TokenValueNone),
     elif |-> Token("Elif", TokenValueNone),
     else |-> Token("Else", TokenValueNone),
     true |-> Token("True", TokenValueBoolean(TRUE)),
     false |-> Token("False", TokenValueBoolean(FALSE)),
     null |-> Token("Null", TokenValueNone),
     use |-> Token("Use", TokenValueNone)]

consume_identifier(source, L) ==
    LET end == skip_identifier(source, L)
        identifier == Collect(source, L.index, end.index)
    IN  LexOk(IF identifier \in DOMAIN Keywords THEN Keywords[identifier]
              ELSE Token("Identifier", TokenValueIdentifier(identifier)),
              end)

\* The `loop` of consume_comment.  Past the end of the source neither
\* pattern matches any more, nesting stays as it is and the loop goes on
\* advancing for ever.
RECURSIVE comment_loop(_, _, _)
comment_loop(source, L, nesting) ==
    IF nesting = 0 THEN LexOk(Token("Newline", TokenValueNone), L)
    ELSE IF lexer_current(source, L) = NoChar
    THEN LexAbort("the loop of consume_comment does not end")
    ELSE IF lexer_current(source, L) = "{" /\ lexer_next(source, L, 1) = "-"
    THEN comment_loop(source, lexer_advance(lexer_advance(L)), nesting + 1)
    ELSE IF lexer_current(source, L) = "-" /\ lexer_next(source, L, 1) = "}"
    THEN comment_loop(source, lexer_advance(lexer_advance(L)), nesting - 1)
    ELSE comment_loop(source, lexer_advance(L), nesting)

consume_comment(source, L) ==
    LET dash == consume(source, L, "-")
    IN  IF dash.consumed THEN comment_loop(source, dash.L, 1)
        ELSE LexOk(Token("LeftBrace", TokenValueNone), L)

\* The `while` of the `--` arm: the lexer at the next newline or at the
\* end of the source.
RECURSIVE skip_line(_, _)
skip_line(source, L) ==
    IF lexer_current(source, L) \in {NoChar, "\n"} THEN L
    ELSE skip_line(source, lexer_advance(L))

\* The arms of consume_token that give a kind for one character.
SingleCharacterKinds ==
    ("}" :> "RightBrace") @@ ("[" :> "LeftBracket") @@ ("]" :> "RightBracket")
    @@ ("(" :> "LeftParenthesis") @@ (")" :> "RightParenthesis")
    @@ ("&" :> "Ampersand") @@ ("^" :> "Caret") @@ ("|" :> "Pipe")
    @@ ("+" :> "Plus") @@ ("/" :> "Slash") @@ ("%" :> "Percent")
    @@ ("@" :> "At") @@ (":" :> "Colon") @@ ("," :> "Comma")
    @@ ("$" :> "Dollar") @@ ("." :> "Dot") @@ ("#" :> "Hash")
    @@ ("?" :> "QuestionMark") @@ (";" :> "Semicolon") @@ ("_" :> "Underscore")

\* The arms that look at the character after: `!=`, `**`, `==`, `<=`,
\* `>=`, as <<second character, kind with it, kind without it>>.
TwoCharacterKinds ==
    ("!" :> <<"=", "BangEqual", "Bang">>) @@ ("*" :> <<"*", "StarStar", "Star">>)
    @@ ("=" :> <<"=", "EqualEqual", "Equal">>)
    @@ ("<" :> <<"=", "LessEqual", "Less">>)
    @@ (">" :> <<"=", "GreaterEqual", "Greater">>)

\* Lexer::consume_token at the character c.
consume_token(source, L, c) ==
    CASE c = "\n" ->
             LexOk(Token("Newline", TokenValueNone),
                   [L EXCEPT !.row = @ + 1, !.bol = L.index + 1])
      [] c = "{" -> consume_comment(source, L)
      [] c \in DOMAIN SingleCharacterKinds ->
             LexOk(Token(SingleCharacterKinds[c], TokenValueNone), L)
      [] c \in DOMAIN TwoCharacterKinds ->
             LET second == consume(source, L, TwoCharacterKinds[c][1])
             IN  LexOk(Token(IF second.consumed THEN TwoCharacterKinds[c][2]
                             ELSE TwoCharacterKinds[c][3],
                             TokenValueNone),
                       second.L)
      [] c = "-" ->
             LET dash == consume(source, L, "-")
             IN  IF dash.consumed
                 THEN LexOk(Token("Newline", TokenValueNone),
                            skip_line(source, dash.L))
                 ELSE LexOk(Token("Minus", TokenValueNone), L)
      [] c = "\"" -> consume_string(source, L)
      [] OTHER ->
             IF is_ascii_digit(c) THEN consume_number(source, L)
             ELSE IF is_alphabetic(c) THEN consume_identifier(source, L)
             ELSE LexOk(Token("Unknown", [tag |-> "Unknown", v |-> c]), L)

\* The loop of Lexer::lex, and its body after `self.consume_token(c)?`:
\* the token is located where the lexer stands and pushed, and the lexer
\* advances.
RECURSIVE lex_loop(_, _, _)

push_token(source, consumed, tokens) ==
    IF consumed.status # "Ok" THEN consumed
    ELSE lex_loop(source, lexer_advance(consumed.L),
                  Append(tokens,
                         [kind |-> consumed.token.kind,
                          value |-> consumed.token.value,
                          location |-> lexer_location(consumed.L)]))

lex_loop(source, L, tokens) ==
    IF lexer_current(source, L) = NoChar
    THEN [status |-> "Ok", tokens |-> tokens]
    ELSE IF is_whitespace(lexer_current(source, L))
            /\ lexer_current(source, L) # "\n"
    THEN lex_loop(source, lexer_advance(L), tokens)
    ELSE push_token(source,
                    consume_token(source, L, lexer_current(source, L)),
                    tokens)

lex(source) == lex_loop(source, LexerNew, <<>>)

(***************************************************************************)
(* Token streams.  Most programs are given as the sequence of tokens of    *)
(* their text; Locate gives each token a location of its own: the row is   *)
(* the number of Newline tokens before it, the column its position among   *)
(* the tokens of the row (where Lexer::lex counts characters).             *)
(***************************************************************************)
TokId(name) == Token("Identifier", TokenValueIdentifier(name))
TokInt(i) == Token("Integer", TokenValueInteger(i))
TokFloat(mantissa, scale) == Token("Float", TokenValueFloat(mantissa, scale))
TokStr(s) == Token("String", TokenValueString(s))
TokTrue == Token("True", TokenValueBoolean(TRUE))
TokFalse == Token("False", TokenValueBoolean(FALSE))
TokNull == Token("Null", TokenValueNone)
Tok(kind) == Token(kind, TokenValueNone)

RECURSIVE LocateFrom(_, _, _, _)
LocateFrom(bare, i, row, column) ==
    IF i > Len(bare) THEN <<>>
    ELSE <<[kind |-> bare[i].kind, value |-> bare[i].value,
            location |-> Location(row, column)]>>
         \o (IF bare[i].kind = "Newline"
             THEN LocateFrom(bare, i + 1, row + 1, 0)
             ELSE LocateFrom(bare, i + 1, row, column + 1))

Locate(bare) == LocateFrom(bare, 1, 0, 0)

(***************************************************************************)
(* Values (model/value.rs).  An Rc<RefCell<Environment>> is the index of   *)
(* its frame in the sequence `frames` of the interpreter state.  No code   *)
(* of the source constructs a Value::BuiltinFunction, so no value of the   *)
(* model is one.                                                           *)
(***************************************************************************)
ValueBoolean(b) == [tag |-> "Boolean", v |-> b]
ValueFloat(f) == [tag |-> "Float", v |-> f]
ValueInteger(i) == [tag |-> "Integer", v |-> i]
ValueNone == [tag |-> "None"]
ValueString(s) == [tag |-> "String", v |-> s]
ValueFunction(parameter, body, environment) ==
    [tag |-> "Function", parameter |-> parameter, body |-> body,
     environment |-> environment]
ValueThunk(expression, environment) ==
    [tag |-> "Thunk", expression |-> expression, environment |-> environment]

\* impl TryFrom<&Located<Token>> for Value
ValueTryFrom(token) ==
    CASE token.value.tag = "Boolean" ->
             [ok |-> TRUE, value |-> ValueBoolean(token.value.v)]
      [] token.value.tag = "Float" ->
             [ok |-> TRUE, value |-> ValueFloat(token.value.v)]
      [] token.value.tag = "Integer" ->
             [ok |-> TRUE, value |-> ValueInteger(token.value.v)]
      [] token.value.tag = "None" -> [ok |-> TRUE, value |-> ValueNone]
      [] token.value.tag = "String" ->
             [ok |-> TRUE, value |-> ValueString(token.value.v)]
      [] OTHER -> [ok |-> FALSE,
                   error |-> Error("InvalidToken", token.location)]

(***************************************************************************)
(* Environments (interpreter/environment.rs, as used by interpreter/mod.rs:*)
(* with_parent hands out a shared cell).  A frame is                       *)
(* [identifiers |-> name -> Value, parent |-> frame index, 0 for None].    *)
(***************************************************************************)
NoParent == 0

EmptyIdentifiers == [name \in {} |-> ValueNone]

EnvironmentNew == [identifiers |-> EmptyIdentifiers, parent |-> NoParent]

\* with_parent giving the new frame a copy of the bindings of `parent`
\* instead of a link to it.
with_parent_copied(frames, parent) ==
    Append(frames, [identifiers |-> frames[parent].identifiers,
                    parent |-> frames[parent].parent])

\* Environment::with_parent: the frames with the new frame added; the new
\* frame is the last one.
with_parent(frames, parent) ==
    Append(frames, [identifiers |-> EmptyIdentifiers, parent |-> parent])

RECURSIVE EnvironmentGet(_, _, _)
EnvironmentGet(frames, environment, key) ==
    IF key \in DOMAIN frames[environment].identifiers
    THEN [some |-> TRUE, value |-> frames[environment].identifiers[key]]
    ELSE IF frames[environment].parent = NoParent THEN [some |-> FALSE]
    ELSE EnvironmentGet(frames, frames[environment].parent, key)

\* EnvironmentSet overwriting the binding of an ancestor that has the key.
RECURSIVE EnvironmentSetOuter(_, _, _, _)
EnvironmentSetOuter(frames, environment, key, value) ==
    IF /\ key \notin DOMAIN frames[environment].identifiers
       /\ frames[environment].parent # NoParent
       /\ EnvironmentGet(frames, frames[environment].parent, key).some
    THEN EnvironmentSetOuter(frames, frames[environment].parent, key, value)
    ELSE [frames EXCEPT ![environment].identifiers =
             [name \in (DOMAIN @) \cup {key} |->
                 IF name = key THEN value ELSE @[name]]]

EnvironmentSet(frames, environment, key, value) ==
    [frames EXCEPT ![environment].identifiers =
        [name \in (DOMAIN @) \cup {key} |->
            IF name = key THEN value ELSE @[name]]]

(***************************************************************************)
(* i128 arithmetic at the width IntBits.  The operators `+ - *` and unary  *)
(* `-` of Rust panic on overflow when the build has overflow checks        *)
(* (debug profile) and wrap when it has not (release profile); `/` and `%` *)
(* panic on overflow in every build.                                       *)
(***************************************************************************)
FitsInteger(n) == INT_MIN <= n /\ n <= INT_MAX

\* Two's-complement wrap-around of n to the width IntBits.
Wrap(n) == ((n - INT_MIN) % Pow2(IntBits)) + INT_MIN

\* The outcome of an unchecked `+`, `-`, `*` or negation whose exact
\* result is n, in a build with or without overflow checks.
Unchecked(n, checks) ==
    IF FitsInteger(n) THEN [panic |-> FALSE, v |-> n]
    ELSE IF checks THEN [panic |-> TRUE]
    ELSE [panic |-> FALSE, v |-> Wrap(n)]

Abs(n) == IF n < 0 THEN -n ELSE n

\* Rust's `/` and `%` on integers: the quotient truncated toward zero and
\* the remainder with the sign of the dividend (r # 0).
TruncDiv(l, r) ==
    IF (l < 0) = (r < 0) THEN Abs(l) \div Abs(r) ELSE -(Abs(l) \div Abs(r))
TruncRem(l, r) == l - r * TruncDiv(l, r)

\* i128::checked_pow: l^exp if it fits, none otherwise.
RECURSIVE checked_pow(_, _)
checked_pow(l, exp) ==
    IF exp = 0 THEN [some |-> TRUE, v |-> 1]
    ELSE LET p == checked_pow(l, exp - 1)
         IN  IF ~p.some THEN p
             ELSE IF FitsInteger(p.v * l) THEN [some |-> TRUE, v |-> p.v * l]
             ELSE [some |-> FALSE]

\* Bitwise operators on two's-complement integers of IntBits bits.
ToUnsigned(n) == IF n < 0 THEN n + Pow2(IntBits) ELSE n
FromUnsigned(u) == IF u > INT_MAX THEN u - Pow2(IntBits) ELSE u

RECURSIVE BitsOp(_, _, _, _)
BitsOp(op, a, b, bits) ==
    IF bits = 0 THEN 0
    ELSE LET x == a % 2
             y == b % 2
             z == CASE op = "and" -> IF x = 1 /\ y = 1 THEN 1 ELSE 0
                    [] op = "or" -> IF x = 1 \/ y = 1 THEN 1 ELSE 0
                    [] op = "xor" -> IF x # y THEN 1 ELSE 0
         IN  z + 2 * BitsOp(op, a \div 2, b \div 2, bits - 1)

Bitwise(op, l, r) ==
    FromUnsigned(BitsOp(op, ToUnsigned(l), ToUnsigned(r), IntBits))

(***************************************************************************)
(* The state of a run.                                                     *)
(***************************************************************************)
VARIABLES
    source,          \* the characters handed to Lexer::lex, <<>> when the
                     \* run starts from a token stream
    tokens,          \* the token stream handed to Parser::parse
    phase,           \* "source", "lexed", "parsed", "done", "failed" or
                     \* "aborted"
    statements,      \* the statements interpret iterates over
    pc,              \* index of the next statement of the loop of interpret
    interpreter,     \* the Interpreter and the frames it can reach
    outcome,         \* the Result the run ended with, NoOutcome before
    overflow_checks  \* whether the build panics on arithmetic overflow

vars ==
    <<source, tokens, phase, statements, pc, interpreter, outcome,
      overflow_checks>>

(***************************************************************************)
(* The evaluator (interpreter/mod.rs).  The interpreter state I is         *)
(*   environment  Interpreter.environment, a frame index                   *)
(*   frames       every Environment cell created so far                    *)
(*   printed      the values written by println!, in order                 *)
(*   trace        history of the current statement: which expressions      *)
(*                evaluate was entered with, what it and force returned,   *)
(*                which calls bound which frame                            *)
(* A result is [status |-> "Ok", value, I], [status |-> "Err", error, I]   *)
(* or, when the process panics or exhausts its stack,                      *)
(* [status |-> "Abort", reason, I].                                        *)
(***************************************************************************)
Ok(value, I) == [status |-> "Ok", value |-> value, I |-> I]
Err(error, I) == [status |-> "Err", error |-> error, I |-> I]
Abort(reason, I) == [status |-> "Abort", reason |-> reason, I |-> I]

Log(I, event) == [I EXCEPT !.trace = Append(@, event)]

BinaryOperators ==
    {"Plus", "Minus", "Star", "StarStar", "Slash", "Percent", "Ampersand",
     "Pipe", "Caret", "BangEqual", "EqualEqual", "Greater", "GreaterEqual",
     "Less", "LessEqual"}

\* The arms `(Value::Integer(l), Value::Integer(r)) => ...` of
\* Expression::Binary, one operator each for those that can fail.
IntegerPlus(l, r, I) ==
    LET n == Unchecked(l + r, overflow_checks)
    IN  IF n.panic THEN Abort("attempt to add with overflow", I)
        ELSE Ok(ValueInteger(n.v), I)

IntegerMinus(l, r, I) ==
    LET n == Unchecked(l - r, overflow_checks)
    IN  IF n.panic THEN Abort("attempt to subtract with overflow", I)
        ELSE Ok(ValueInteger(n.v), I)

IntegerStar(l, r, I) ==
    LET n == Unchecked(l * r, overflow_checks)
    IN  IF n.panic THEN Abort("attempt to multiply with overflow", I)
        ELSE Ok(ValueInteger(n.v), I)

\* IntegerStarStar without the test for the bases 0 and 1.
IntegerStarStarStrict(l, r, location, I) ==
    IF r < 0 \/ r > U32_MAX
    THEN IF r > 0 THEN Err(Error("Overflow", location), I)
         ELSE Err(Error("InvalidArguments", location), I)
    ELSE LET p == checked_pow(l, r)
         IN  IF p.some THEN Ok(ValueInteger(p.v), I)
             ELSE Err(Error("Overflow", location), I)


IntegerStarStar(l, r, location, I) ==
    IF r < 0 \/ r > U32_MAX
    THEN IF l \in 0..1 THEN Ok(ValueInteger(l), I)
         ELSE IF r > 0 THEN Err(Error("Overflow", location), I)
         ELSE Err(Error("InvalidArguments", location), I)
    ELSE LET p == checked_pow(l, r)
         IN  IF p.some THEN Ok(ValueInteger(p.v), I)
             ELSE Err(Error("Overflow", location), I)

\* IntegerSlash without the test for a zero divisor.
IntegerSlashUnguarded(l, r, location, I) ==
    IF r = 0 THEN Abort("attempt to divide by zero", I)
    ELSE IF l = INT_MIN /\ r = -1
    THEN Abort("attempt to divide with overflow", I)
    ELSE Ok(ValueInteger(TruncDiv(l, r)), I)

IntegerSlash(l, r, location, I) ==
    IF r = 0 THEN Err(Error("DivisionByZero", location), I)
    ELSE IF l = INT_MIN /\ r = -1
    THEN Abort("attempt to divide with overflow", I)
    ELSE Ok(ValueInteger(TruncDiv(l, r)), I)

IntegerPercent(l, r, location, I) ==
    IF r = 0 THEN Err(Error("DivisionByZero", location), I)
    ELSE IF l = INT_MIN /\ r = -1
    THEN Abort("attempt to calculate the remainder with overflow", I)
    ELSE Ok(ValueInteger(TruncRem(l, r)), I)

IntegerBinary(kind, l, r, location, I) ==
    CASE kind = "Plus" -> IntegerPlus(l, r, I)
      [] kind = "Minus" -> IntegerMinus(l, r, I)
      [] kind = "Star" -> IntegerStar(l, r, I)
      [] kind = "StarStar" -> IntegerStarStar(l, r, location, I)
      [] kind = "Slash" -> IntegerSlash(l, r, location, I)
      [] kind = "Percent" -> IntegerPercent(l, r, location, I)
      [] kind = "Ampersand" -> Ok(ValueInteger(Bitwise("and", l, r)), I)
      [] kind = "Pipe" -> Ok(ValueInteger(Bitwise("or", l, r)), I)
      [] kind = "Caret" -> Ok(ValueInteger(Bitwise("xor", l, r)), I)
      [] kind = "BangEqual" -> Ok(ValueBoolean(l # r), I)
      [] kind = "EqualEqual" -> Ok(ValueBoolean(l = r), I)
      [] kind = "Greater" -> Ok(ValueBoolean(l > r), I)
      [] kind = "GreaterEqual" -> Ok(ValueBoolean(l >= r), I)
      [] kind = "Less" -> Ok(ValueBoolean(l < r), I)
      [] kind = "LessEqual" -> Ok(ValueBoolean(l <= r), I)

\* The arms `(Value::Boolean(l), Value::Boolean(r)) => ...`, where there is
\* one.
BooleanOperators ==
    {"Ampersand", "Pipe", "Caret", "BangEqual", "EqualEqual", "Greater",
     "GreaterEqual", "Less", "LessEqual"}

BooleanBinary(kind, l, r) ==
    CASE kind = "Ampersand" -> l /\ r
      [] kind = "Pipe" -> l \/ r
      [] kind = "Caret" -> l # r
      [] kind = "BangEqual" -> l # r
      [] kind = "EqualEqual" -> l = r
      [] kind = "Greater" -> l /\ ~r
      [] kind = "GreaterEqual" -> l \/ ~r
      [] kind = "Less" -> ~l /\ r
      [] kind = "LessEqual" -> ~l \/ r

\* BinaryMatch with `==` defined on two Strings.
BinaryMatchStringEquality(operator, o) ==
    IF o.status # "Ok" THEN o
    ELSE IF o.left.tag = "Integer" /\ o.right.tag = "Integer"
    THEN IntegerBinary(operator.kind, o.left.v, o.right.v, operator.location,
                       o.I)
    ELSE IF o.left.tag = "String" /\ o.right.tag = "String"
            /\ operator.kind = "Plus"
    THEN Ok(ValueString(o.left.v \o o.right.v), o.I)
    ELSE IF o.left.tag = "String" /\ o.right.tag = "String"
            /\ operator.kind = "EqualEqual"
    THEN Ok(ValueBoolean(o.left.v = o.right.v), o.I)
    ELSE IF o.left.tag = "Boolean" /\ o.right.tag = "Boolean"
            /\ operator.kind \in BooleanOperators
    THEN Ok(ValueBoolean(BooleanBinary(operator.kind, o.left.v, o.right.v)),
            o.I)
    ELSE Err(Error("InvalidArguments", operator.location), o.I)


\* The `match (self.force(left_value)?, self.force(right_value)?)` of every
\* arm of Expression::Binary, on the two forced operands.
BinaryMatch(operator, o) ==
    IF o.status # "Ok" THEN o
    ELSE IF o.left.tag = "Integer" /\ o.right.tag = "Integer"
    THEN IntegerBinary(operator.kind, o.left.v, o.right.v, operator.location,
                       o.I)
    ELSE IF o.left.tag = "String" /\ o.right.tag = "String"
            /\ operator.kind = "Plus"
    THEN Ok(ValueString(o.left.v \o o.right.v), o.I)
    ELSE IF o.left.tag = "Boolean" /\ o.right.tag = "Boolean"
            /\ operator.kind \in BooleanOperators
    THEN Ok(ValueBoolean(BooleanBinary(operator.kind, o.left.v, o.right.v)),
            o.I)
    ELSE Err(Error("InvalidArguments", operator.location), o.I)

\* CallParent with dynamic scoping: the new frame's parent is the caller's
\* environment.
CallParentCaller(captured, caller) == caller

\* ThunkEnvironment capturing the callee's new frame.
ThunkEnvironmentCallee(caller, callee) == callee

\* The environment of the Thunk a call binds the parameter to:
\* `environment: self.environment.clone()`, taken before
\* `self.environment = function_environment`, so the caller's.
ThunkEnvironment(caller, callee) == caller

\* The parent of the frame a call evaluates the body in:
\* `Environment::with_parent(environment)`, where environment is the one
\* the Function value captured and not self.environment, the caller's.
CallParent(captured, caller) == captured

(***************************************************************************)
(* An operator below that takes the result of an earlier step as a         *)
(* parameter models the code after the `?` of that step: it returns the    *)
(* error (or the abort) unchanged when the step did not return Ok.         *)
(***************************************************************************)
RECURSIVE evaluate(_, _, _)
RECURSIVE evaluate_match(_, _, _)
RECURSIVE force(_, _, _)
RECURSIVE force_match(_, _, _)
RECURSIVE operands(_, _, _, _)
RECURSIVE evaluate_unary(_, _, _)
RECURSIVE evaluate_binary(_, _, _)
RECURSIVE evaluate_call(_, _, _)
RECURSIVE evaluate_identifier(_, _, _)
RECURSIVE evaluate_if(_, _, _, _)
RECURSIVE evaluate_lambda(_, _, _)

\* The history entry of a call of evaluate ("return") or force ("forced")
\* that returned Ok: the variant of the value it returned.
Returned(event, r) ==
    IF r.status = "Ok"
    THEN [r EXCEPT !.I = Log(@, [event |-> event, tag |-> r.value.tag])]
    ELSE r

\* `self.force(value)?` on the value an `evaluate(..)?` returned.
force_value(value, depth) ==
    IF value.status # "Ok" THEN value
    ELSE force(value.value, value.I, depth)

\* The Thunk arm of force after `let value = self.evaluate(expression)?`.
force_thunk(value, old_environment, depth) ==
    IF value.status # "Ok" THEN value
    ELSE force(value.value, [value.I EXCEPT !.environment = old_environment],
               depth + 1)

\* The `match value` of Interpreter::force.
force_match(value, I, depth) ==
    IF value.tag = "Thunk"
    THEN force_thunk(
             evaluate(value.expression,
                      Log([I EXCEPT !.environment = value.environment],
                          [event |-> "force", expression |-> value.expression,
                           environment |-> value.environment]),
                      depth + 1),
             I.environment, depth)
    ELSE Ok(value, I)

\* Interpreter::force with its place in the history: what it returned.
force(value, I, depth) ==
    IF depth > MaxDepth THEN Abort("stack overflow", I)
    ELSE Returned("forced", force_match(value, I, depth))

\* The two operands of a Binary arm as one result:
\* [status |-> "Ok", left, right, I].
WithLeft(left, right) ==
    IF left.status # "Ok" THEN left
    ELSE [status |-> "Ok", left |-> left.value, right |-> right,
          I |-> left.I]

WithRight(left, right) ==
    IF right.status # "Ok" THEN right
    ELSE [status |-> "Ok", left |-> left, right |-> right.value,
          I |-> right.I]

\* evaluate_right short-circuiting: after a left operand that is
\* Boolean(false) the right operand is not evaluated.
evaluate_right_short(left_value, right, depth) ==
    IF left_value.status # "Ok" THEN left_value
    ELSE IF left_value.value = ValueBoolean(FALSE)
    THEN WithRight(left_value.value, Ok(ValueBoolean(FALSE), left_value.I))
    ELSE WithRight(left_value.value,
                   evaluate(right, left_value.I, depth + 1))


\* `let right_value = self.evaluate(*right)?`, after left_value.
evaluate_right(left_value, right, depth) ==
    IF left_value.status # "Ok" THEN left_value
    ELSE WithRight(left_value.value,
                   evaluate(right, left_value.I, depth + 1))

\* `self.force(left_value)?`, after both operands were evaluated.
force_left(o, depth) ==
    IF o.status # "Ok" THEN o
    ELSE WithLeft(force(o.left, o.I, depth + 1), o.right)

\* `self.force(right_value)?`, after the left operand was forced.
force_right(o, depth) ==
    IF o.status # "Ok" THEN o
    ELSE WithRight(o.left, force(o.right, o.I, depth + 1))

\* The first lines of every arm of Expression::Binary: both operands are
\* evaluated, left then right, and then forced, left then right.
operands(left, right, I, depth) ==
    force_right(
        force_left(
            evaluate_right(evaluate(left, I, depth + 1), right, depth),
            depth),
        depth)

\* The `match self.force(value)?` of the Bang and Minus arms of
\* Expression::Unary.
unary_match(operator, forced) ==
    IF forced.status # "Ok" THEN forced
    ELSE IF operator.kind = "Bang"
    THEN IF forced.value.tag = "Boolean"
         THEN Ok(ValueBoolean(~forced.value.v), forced.I)
         ELSE Err(Error("InvalidArguments", operator.location), forced.I)
    ELSE IF forced.value.tag = "Integer"
         THEN LET n == Unchecked(-forced.value.v, overflow_checks)
              IN  IF n.panic
                  THEN Abort("attempt to negate with overflow", forced.I)
                  ELSE Ok(ValueInteger(n.v), forced.I)
         ELSE Err(Error("InvalidArguments", operator.location), forced.I)

evaluate_unary(expression, I, depth) ==
    IF expression.operator.kind \in {"Bang", "Minus"}
    THEN unary_match(expression.operator,
             force_value(evaluate(expression.expression, I, depth + 1),
                         depth + 1))
    ELSE Err(Error("UnsupportedExpression", expression.operator.location), I)

evaluate_binary(expression, I, depth) ==
    IF expression.operator.kind \in BinaryOperators
    THEN BinaryMatch(expression.operator,
                     operands(expression.left, expression.right, I, depth))
    ELSE Err(Error("UnsupportedExpression", expression.operator.location), I)

\* The Value::Function arm of Expression::Call after
\* `let res = self.evaluate(body)?`: the caller's environment is put back.
call_return(res, old_environment) ==
    IF res.status # "Ok" THEN res
    ELSE Ok(res.value, [res.I EXCEPT !.environment = old_environment])

\* The `match self.force(function_value)?` of Expression::Call.
call_match(expression, forced, depth) ==
    IF forced.status # "Ok" THEN forced
    ELSE IF forced.value.tag = "Function"
    THEN
    LET f == forced.value
        old_environment == forced.I.environment
        frames1 == with_parent(forced.I.frames,
                               CallParent(f.environment, forced.I.environment))
        function_environment == Len(frames1)
        parameter_name == get_identifier_name(f.parameter)
    IN  IF ~parameter_name.some
        THEN Err(Error("InvalidToken", f.parameter.location),
                 [forced.I EXCEPT !.frames = frames1])
        ELSE
        LET thunk == ValueThunk(expression.argument,
                                ThunkEnvironment(forced.I.environment,
                                                 function_environment))
            frames2 == EnvironmentSet(frames1, function_environment,
                                      parameter_name.name, thunk)
        IN  call_return(
                evaluate(f.body,
                         Log([forced.I EXCEPT
                                  !.frames = frames2,
                                  !.environment = function_environment],
                             [event |-> "call",
                              parameter |-> parameter_name.name,
                              body |-> f.body,
                              argument |-> expression.argument,
                              environment |-> old_environment,
                              captured |-> f.environment,
                              frame |-> function_environment]),
                         depth + 1),
                old_environment)
    ELSE Err(Error("ExpectedExpression", expression.function.location),
             forced.I)

evaluate_call(expression, I, depth) ==
    call_match(expression,
               force_value(evaluate(expression.function, I, depth + 1),
                           depth + 1),
               depth)

\* evaluate_identifier returning the looked-up value as it is bound.
evaluate_identifier_unforced(expression, I, depth) ==
    LET token == expression.token
    IN  IF token.value.tag = "Identifier"
        THEN LET value == EnvironmentGet(I.frames, I.environment, token.value.v)
             IN  IF ~value.some
                 THEN Err(Error("InvalidIdentifier", token.location), I)
                 ELSE Ok(value.value, I)
        ELSE Err(Error("UnsupportedExpression", token.location), I)

evaluate_identifier(expression, I, depth) ==
    LET token == expression.token
    IN  IF token.value.tag = "Identifier"
        THEN LET value == EnvironmentGet(I.frames, I.environment, token.value.v)
             IN  IF ~value.some
                 THEN Err(Error("InvalidIdentifier", token.location), I)
                 ELSE force(value.value, I, depth + 1)
        ELSE Err(Error("UnsupportedExpression", token.location), I)

\* if_match taking every condition but Boolean(false) for true.
if_match_truthy(expression, i, forced, depth) ==
    IF forced.status # "Ok" THEN forced
    ELSE IF forced.value # ValueBoolean(FALSE)
    THEN evaluate(expression.branches[i][2], forced.I, depth + 1)
    ELSE evaluate_if(expression, i + 1, forced.I, depth)

\* if_match rejecting a condition that is no Boolean.
if_match_strict(expression, i, forced, depth) ==
    IF forced.status # "Ok" THEN forced
    ELSE IF forced.value.tag # "Boolean"
    THEN Err(Error("InvalidArguments", expression.branches[i][1].location),
             forced.I)
    ELSE IF forced.value = ValueBoolean(TRUE)
    THEN evaluate(expression.branches[i][2], forced.I, depth + 1)
    ELSE evaluate_if(expression, i + 1, forced.I, depth)


\* `if matches!(self.force(value)?, Value::Boolean(true))` of branch i: its body
\* is evaluated and returned, or the loop goes on with the next branch.
if_match(expression, i, forced, depth) ==
    IF forced.status # "Ok" THEN forced
    ELSE IF forced.value = ValueBoolean(TRUE)
    THEN evaluate(expression.branches[i][2], forced.I, depth + 1)
    ELSE evaluate_if(expression, i + 1, forced.I, depth)

\* The `for (condition, expression) in branches` loop of Expression::If,
\* from branch i on, and the evaluation of `otherwise` after it.
evaluate_if(expression, i, I, depth) ==
    IF i > Len(expression.branches)
    THEN evaluate(expression.otherwise, I, depth + 1)
    ELSE if_match(expression, i,
             force_value(evaluate(expression.branches[i][1], I, depth + 1),
                         depth + 1),
             depth)

evaluate_lambda(expression, I, depth) ==
    LET frames1 == with_parent(I.frames, I.environment)
    IN  Ok(ValueFunction(expression.parameter, expression.body, Len(frames1)),
           [I EXCEPT !.frames = frames1])

\* The `match expression.node` of Interpreter::evaluate.
evaluate_match(expression, I, depth) ==
    CASE expression.kind = "Unary" -> evaluate_unary(expression, I, depth)
      [] expression.kind = "Binary" -> evaluate_binary(expression, I, depth)
      [] expression.kind = "Call" -> evaluate_call(expression, I, depth)
      [] expression.kind = "Identifier" ->
             evaluate_identifier(expression, I, depth)
      [] expression.kind = "If" -> evaluate_if(expression, 1, I, depth)
      [] expression.kind = "Lambda" -> evaluate_lambda(expression, I, depth)
      [] expression.kind = "Literal" ->
             LET value == ValueTryFrom(expression.token)
             IN  IF value.ok THEN Ok(value.value, I) ELSE Err(value.error, I)

\* Interpreter::evaluate with its place in the history: the expression it
\* was entered with, in which environment, and what it returned.
evaluate(expression, I, depth) ==
    IF depth > MaxDepth THEN Abort("stack overflow", I)
    ELSE Returned("return",
             evaluate_match(expression,
                 Log(I, [event |-> "evaluate",
                         expression |-> expression,
                         environment |-> I.environment]),
                 depth))

(***************************************************************************)
(* Interpreter::execute, one operator per statement kind.                  *)
(***************************************************************************)
execute_declaration(statement, I) == Abort("not yet implemented", I)

\* execute_definition giving the closure the current frame itself.
execute_definition_shared(statement, I) ==
    LET name == get_identifier_name(statement.name)
    IN  IF ~name.some THEN Err(Error("InvalidToken", statement.location), I)
        ELSE Ok(ValueNone,
                [I EXCEPT !.frames =
                    EnvironmentSet(@, I.environment, name.name,
                        ValueFunction(statement.parameter, statement.body,
                                      I.environment))])

execute_definition(statement, I) ==
    LET name == get_identifier_name(statement.name)
    IN  IF ~name.some THEN Err(Error("InvalidToken", statement.location), I)
        ELSE LET frames1 == with_parent(I.frames, I.environment)
                 environment == Len(frames1)
             IN  Ok(ValueNone,
                    [I EXCEPT !.frames =
                        EnvironmentSet(frames1, I.environment, name.name,
                            ValueFunction(statement.parameter, statement.body,
                                          environment))])

\* `println!("Value({})", self.force(value)?)`.
println(forced) ==
    IF forced.status # "Ok" THEN forced
    ELSE Ok(ValueNone, [forced.I EXCEPT !.printed = Append(@, forced.value)])

execute_expression(statement, I) ==
    println(force_value(evaluate(statement.expression, I, 0), 0))

\* `self.environment.borrow_mut().set(name, value)` of Statement::Variable,
\* after `let value = self.evaluate(body)?`.
set_variable(name, value) ==
    IF value.status # "Ok" THEN value
    ELSE Ok(ValueNone,
            [value.I EXCEPT !.frames =
                EnvironmentSet(@, value.I.environment, name, value.value)])

execute_variable(statement, I) ==
    LET name == get_identifier_name(statement.name)
    IN  IF ~name.some THEN Err(Error("InvalidToken", statement.location), I)
        ELSE set_variable(name.name, evaluate(statement.body, I, 0))

(***************************************************************************)
(* The inputs of a run: the token streams of small programs.               *)
(***************************************************************************)
LP == Tok("LeftParenthesis")
RP == Tok("RightParenthesis")
NL == Tok("Newline")

\* The tokens that write the integer n: a literal, a negated literal, or
\* for the least integer (whose magnitude is no literal) `(-MAX - 1)`.
IntegerTokens(n) ==
    IF n >= 0 THEN <<TokInt(n)>>
    ELSE IF n > INT_MIN THEN <<Tok("Minus"), TokInt(-n)>>
    ELSE <<LP, Tok("Minus"), TokInt(INT_MAX), Tok("Minus"), TokInt(1), RP>>

\* `a lo b hi c`
PrecedenceSource(a, lo, b, hi, c) ==
    Locate(<<TokInt(a), Tok(lo), TokInt(b), Tok(hi), TokInt(c)>>)

PrecedenceOperands == {<<3, 4, 2>>, <<2, 3, 2>>}

PrecedenceSources ==
    {PrecedenceSource(o[1], lo, o[2], hi, o[3]) :
        lo \in BinaryOperators, hi \in BinaryOperators,
        o \in PrecedenceOperands}

\* `l op r`
ArithmeticSource(l, op, r) ==
    Locate(IntegerTokens(l) \o <<Tok(op)>> \o IntegerTokens(r))

ArithmeticOperands ==
    {INT_MIN, INT_MIN + 1, -2, -1, 0, 1, 2, 5, INT_MAX - 1, INT_MAX}

ArithmeticOperators == {"Plus", "Minus", "Star", "Slash", "Percent"}

ArithmeticSources ==
    {ArithmeticSource(l, op, r) :
        l \in ArithmeticOperands, op \in ArithmeticOperators,
        r \in ArithmeticOperands}

\* `l op r` with Float literals: 5.0 and 0.0
FloatFive == TokFloat(50, 1)
FloatZero == TokFloat(0, 1)

FloatSource(l, op, r) == Locate(<<l, Tok(op), r>>)

FloatSources ==
    {FloatSource(l, op, r) :
         l \in {FloatFive, FloatZero, TokInt(5)}, op \in {"Slash", "Percent"},
         r \in {FloatZero, TokInt(0)}}

\* `(1 / 0)`
DivisionByZeroTokens == <<LP, TokInt(1), Tok("Slash"), TokInt(0), RP>>

\* `(x y $ x) 1 (1 / 0)`
LazyLambdaSource ==
    Locate(<<LP, TokId("x"), TokId("y"), Tok("Dollar"), TokId("x"), RP,
             TokInt(1)>> \o DivisionByZeroTokens)

\* `k x y = x` or `k x y = y`, then `k <first> <second>`
LazySource(used, first, second) ==
    Locate(<<TokId("k"), TokId("x"), TokId("y"), Tok("Equal"), TokId(used), NL,
             TokId("k")>> \o first \o second)

LazyArguments == {<<TokInt(1)>>, <<TokInt(2)>>, DivisionByZeroTokens}

LazySources ==
    {LazySource(used, first, second) :
        used \in {"x", "y"}, first \in LazyArguments, second \in LazyArguments}

\* `f p1 ... pn = p1 - ... - pn`, then `f a1 ... ak`
CurryParameters == <<"a", "b", "c">>
CurryArguments == <<7, 2, 1>>

RECURSIVE CurryBodyTokens(_, _)
CurryBodyTokens(i, n) ==
    IF i > n THEN <<>>
    ELSE (IF i = 1 THEN <<>> ELSE <<Tok("Minus")>>)
         \o <<TokId(CurryParameters[i])>> \o CurryBodyTokens(i + 1, n)

CurrySource(n, k) ==
    Locate(<<TokId("f")>> \o [i \in 1..n |-> TokId(CurryParameters[i])]
           \o <<Tok("Equal")>> \o CurryBodyTokens(1, n) \o <<NL, TokId("f")>>
           \o [i \in 1..k |-> TokInt(CurryArguments[i])])

CurrySources == {CurrySource(n, k) : n \in 1..3, k \in 0..3}

\* `add a b = a + b`, then `add 2 3` or `add 2`
AddSource(arguments) ==
    Locate(<<TokId("add"), TokId("a"), TokId("b"), Tok("Equal"), TokId("a"),
             Tok("Plus"), TokId("b"), NL, TokId("add")>> \o arguments)

AddSources == {AddSource(<<TokInt(2), TokInt(3)>>), AddSource(<<TokInt(2)>>)}

\* `f a1 ... an`, each argument an identifier, a literal or a
\* parenthesized expression
ApplicationArgument(kind, i) ==
    CASE kind = "identifier" -> <<TokId(<<"x", "y", "z">>[i])>>
      [] kind = "literal" -> <<TokInt(i)>>
      [] kind = "parenthesized" -> <<LP, TokInt(i), RP>>

ApplicationArgumentKinds == {"identifier", "literal", "parenthesized"}

RECURSIVE ApplicationTokens(_, _)
ApplicationTokens(kinds, i) ==
    IF i > Len(kinds) THEN <<>>
    ELSE ApplicationArgument(kinds[i], i) \o ApplicationTokens(kinds, i + 1)

ApplicationSource(kinds) ==
    Locate(<<TokId("f")>> \o ApplicationTokens(kinds, 1))

ApplicationKindSequences ==
    UNION {[1..n -> ApplicationArgumentKinds] : n \in 1..3}

ApplicationSources ==
    {ApplicationSource(kinds) : kinds \in ApplicationKindSequences}

\* `if c1 then b1 elif c2 then b2 else b3`
IfSource(c1, b1, c2, b2, b3) ==
    Locate(<<Tok("If")>> \o c1 \o <<Tok("Then")>> \o b1 \o <<Tok("Elif")>>
           \o c2 \o <<Tok("Then")>> \o b2 \o <<Tok("Else")>> \o b3)

IfConditions == {<<TokTrue>>, <<TokFalse>>, <<TokInt(0)>>, DivisionByZeroTokens}
IfBodies == {<<TokInt(2)>>, DivisionByZeroTokens}

IfSources ==
    {IfSource(c1, b1, c2, b2, b3) :
        c1 \in IfConditions, b1 \in IfBodies, c2 \in IfConditions,
        b2 \in IfBodies, b3 \in IfBodies}

\* `g y = <body>`, `f a = g 1`, then `f 5`: the body of g is evaluated in
\* a call made from the body of f, whose frame binds a.
ScopeSource(body) ==
    Locate(<<TokId("g"), TokId("y"), Tok("Equal"), TokId(body), NL,
             TokId("f"), TokId("a"), Tok("Equal"), TokId("g"), TokInt(1), NL,
             TokId("f"), TokInt(5)>>)

ScopeSources == {ScopeSource(body) : body \in {"a", "y", "g"}}

\* `f x = x`, `g x = f x`, then `g 5`: a thunk whose expression is an
\* identifier bound to another thunk.
ThunkChainSource ==
    Locate(<<TokId("f"), TokId("x"), Tok("Equal"), TokId("x"), NL,
             TokId("g"), TokId("x"), Tok("Equal"), TokId("f"), TokId("x"), NL,
             TokId("g"), TokInt(5)>>)

\* `t : Integer Integer`
DeclarationSource ==
    Locate(<<TokId("t"), Tok("Colon"), TokId("Integer"), TokId("Integer")>>)

\* `c z = 1`, `f x = c 0`, `f 0`, `c z = <v>`, `f 0`: the closure f is
\* called before and after the scope that defined it rebinds c.
RebindValues == {2, 3}

RebindSource(v) ==
    Locate(<<TokId("c"), TokId("z"), Tok("Equal"), TokInt(1), NL,
             TokId("f"), TokId("x"), Tok("Equal"), TokId("c"), TokInt(0), NL,
             TokId("f"), TokInt(0), NL,
             TokId("c"), TokId("z"), Tok("Equal"), TokInt(v), NL,
             TokId("f"), TokInt(0)>>)

RebindSources == {RebindSource(v) : v \in RebindValues}

\* `f x = x`, `<second>`, `g y = y`, `f 2`: the second statement fails
\* (`1 / 0`, the unbound `u`) or does not (`3`).
InterruptSource(second) ==
    Locate(<<TokId("f"), TokId("x"), Tok("Equal"), TokId("x"), NL>>
           \o second
           \o <<NL, TokId("g"), TokId("y"), Tok("Equal"), TokId("y"), NL,
                TokId("f"), TokInt(2)>>)

InterruptSources ==
    {InterruptSource(second) :
        second \in {<<TokInt(1), Tok("Slash"), TokInt(0)>>, <<TokId("u")>>,
                    <<TokInt(3)>>}}

\* `1 2`, `true 1`, `(1) 2`: a complete statement followed by another
\* token on the same line; `1 ; 2`: two statements and a semicolon.
UnterminatedSources ==
    {Locate(<<TokInt(1), TokInt(2)>>), Locate(<<TokTrue, TokInt(1)>>),
     Locate(<<LP, TokInt(1), RP, TokInt(2)>>)}

SemicolonSource == Locate(<<TokInt(1), Tok("Semicolon"), TokInt(2)>>)

\* `x = 5`, `x = y`, and `f a = a` followed by `x = 5`: a name directly
\* followed by `=`.
ZeroParameterSources ==
    {Locate(<<TokId("x"), Tok("Equal"), TokInt(5)>>),
     Locate(<<TokId("x"), Tok("Equal"), TokId("y")>>),
     Locate(<<TokId("f"), TokId("a"), Tok("Equal"), TokId("a"), NL,
              TokId("x"), Tok("Equal"), TokInt(5)>>)}

\* The position of the name of the definition without parameters.
ZeroParameterName(ts) == IF Len(ts) = 3 THEN 1 ELSE 6

\* `f x = g x`, `g y = y`, `f 4`: g is bound after the closure f exists.
LaterSource ==
    Locate(<<TokId("f"), TokId("x"), Tok("Equal"), TokId("g"), TokId("x"), NL,
             TokId("g"), TokId("y"), Tok("Equal"), TokId("y"), NL,
             TokId("f"), TokInt(4)>>)

\* `r n = if n == 0 then 0 else r (n - 1)`, then `r 2`
RecursionSource ==
    Locate(<<TokId("r"), TokId("n"), Tok("Equal"), Tok("If"), TokId("n"),
             Tok("EqualEqual"), TokInt(0), Tok("Then"), TokInt(0), Tok("Else"),
             TokId("r"), LP, TokId("n"), Tok("Minus"), TokInt(1), RP, NL,
             TokId("r"), TokInt(2)>>)

\* `a z = 1`, `f a = a`, `f 2`: the parameter of f has the name of a
\* binding of the frame f was created in.
ShadowSource ==
    Locate(<<TokId("a"), TokId("z"), Tok("Equal"), TokInt(1), NL,
             TokId("f"), TokId("a"), Tok("Equal"), TokId("a"), NL,
             TokId("f"), TokInt(2)>>)

\* `(l) ** (r)`: the bases and the exponents of C21, among them the
\* exponents at and beyond the bounds of u32 and negative ones.
PowerSource(l, r) ==
    Locate(<<LP>> \o IntegerTokens(l) \o <<RP, Tok("StarStar"), LP>>
           \o IntegerTokens(r) \o <<RP>>)

PowerBases == {INT_MIN, -2, -1, 0, 1, 2, 3, INT_MAX}

PowerExponents ==
    {INT_MIN, -2, -1, 0, 1, 2, IntBits - 2, IntBits - 1, IntBits, U32_MAX,
     U32_MAX + 1, INT_MAX}

PowerSources == {PowerSource(l, r) : l \in PowerBases, r \in PowerExponents}


\* `<left> op <right>` for every binary operator, with operands that
\* evaluate to a value (`false`, `true`, `0`) and operands that fail:
\* `(1 / 0 == 0)` with DivisionByZero and the unbound `(u)` with
\* InvalidIdentifier.
OperandTokens ==
    {<<TokFalse>>, <<TokTrue>>, <<TokInt(0)>>,
     <<LP, TokInt(1), Tok("Slash"), TokInt(0), Tok("EqualEqual"), TokInt(0),
       RP>>,
     <<LP, TokId("u"), RP>>}

OperandSource(left, op, right) == Locate(left \o <<Tok(op)>> \o right)

OperandSources ==
    {OperandSource(left, op, right) :
        left \in OperandTokens, op \in BinaryOperators,
        right \in OperandTokens}


\* One operand of each runtime type: `1`, `5.0`, `"a"`, `true`, `null`
\* and the lambda `(x $ x)`.
ValueTypes == {"Integer", "Float", "String", "Boolean", "None", "Function"}

TypedTokens(type) ==
    CASE type = "Integer" -> <<TokInt(1)>>
      [] type = "Float" -> <<FloatFive>>
      [] type = "String" -> <<TokStr("a")>>
      [] type = "Boolean" -> <<TokTrue>>
      [] type = "None" -> <<TokNull>>
      [] type = "Function" ->
             <<LP, TokId("x"), Tok("Dollar"), TokId("x"), RP>>

\* `<left> op <right>` and `op <operand>` by the types of the operands.
TypedBinarySource(left, op, right) ==
    Locate(TypedTokens(left) \o <<Tok(op)>> \o TypedTokens(right))

TypedUnarySource(op, type) == Locate(<<Tok(op)>> \o TypedTokens(type))

TypedSources ==
    {TypedBinarySource(left, op, right) :
        left \in ValueTypes, op \in BinaryOperators, right \in ValueTypes}
    \cup {TypedUnarySource(op, type) :
              op \in {"Bang", "Minus"}, type \in ValueTypes}


\* `if c1 then b1 (elif cj then bj)* else o` with n elif branches, the
\* conditions and bodies distinct integer literals.
MaxElifs == 2

RECURSIVE ElifTokens(_, _)
ElifTokens(j, n) ==
    IF j > n THEN <<>>
    ELSE <<Tok("Elif"), TokInt(10 + j), Tok("Then"), TokInt(20 + j)>>
         \o ElifTokens(j + 1, n)

ConditionalTokens(n) ==
    <<Tok("If"), TokInt(10), Tok("Then"), TokInt(20)>> \o ElifTokens(1, n)
    \o <<Tok("Else"), TokInt(30)>>

\* The positions of the mandatory keywords: the `then` of each of the
\* n + 1 conditions, and the `else`.
ThenPosition(j) == 4 * j - 1
ElsePosition(n) == 4 * n + 5

KeywordPositions(n) ==
    {ThenPosition(j) : j \in 1..(n + 1)} \cup {ElsePosition(n)}

\* The conditional with the keyword at position p missing: the input ends
\* before it, or another token stands in its place.
MissingKinds == {"EOF", "Newline", "RightParenthesis", "Equal"}

ConditionalSource(n, p, kind) ==
    LET ts == ConditionalTokens(n)
    IN  Locate(IF p = 0 THEN ts
               ELSE IF kind = "EOF" THEN SubSeq(ts, 1, p - 1)
               ELSE [ts EXCEPT ![p] = Tok(kind)])

ConditionalSources ==
    {ConditionalSource(n, 0, "EOF") : n \in 0..MaxElifs}
    \cup UNION {{ConditionalSource(n, p, kind) :
                    p \in KeywordPositions(n), kind \in MissingKinds} :
                n \in 0..MaxElifs}


\* `t : Integer Integer`, then `1`
DeclarationThenSource ==
    Locate(<<TokId("t"), Tok("Colon"), TokId("Integer"), TokId("Integer"), NL,
             TokInt(1)>>)


\* `- (n)`
NegationSource(n) ==
    Locate(<<Tok("Minus"), LP>> \o IntegerTokens(n) \o <<RP>>)

NegationSources == {NegationSource(n) : n \in ArithmeticOperands}


\* Every sequence of one to three of the tokens `x`, `1`, `=`, `:`, `$`,
\* `(`, `)`, `if`, `@` and the newline: mostly no program at all.
StrayTokens ==
    {TokId("x"), TokInt(1), Tok("Equal"), Tok("Colon"), Tok("Dollar"), LP, RP,
     Tok("If"), Tok("At"), NL}

StraySources ==
    {Locate(ts) : ts \in UNION {[1..n -> StrayTokens] : n \in 1..3}}


\* `if c1 then 21 elif c2 then 22 else 23`, each condition a value of one
\* of the runtime types, `false`, or the failing `(1 / 0)`.
TypedConditions ==
    {TypedTokens(type) : type \in ValueTypes}
    \cup {<<TokFalse>>, DivisionByZeroTokens}

TypedIfSource(c1, c2) ==
    IfSource(c1, <<TokInt(21)>>, c2, <<TokInt(22)>>, <<TokInt(23)>>)

TypedIfSources ==
    {TypedIfSource(c1, c2) : c1 \in TypedConditions, c2 \in TypedConditions}


Sources ==
    PrecedenceSources \cup ArithmeticSources \cup FloatSources
    \cup {LazyLambdaSource} \cup LazySources \cup CurrySources \cup AddSources
    \cup ApplicationSources \cup IfSources \cup ScopeSources
    \cup {ThunkChainSource, DeclarationSource, DeclarationThenSource}
    \cup RebindSources
    \cup InterruptSources \cup UnterminatedSources \cup {SemicolonSource}
    \cup ZeroParameterSources
    \cup {LaterSource, RecursionSource, ShadowSource} \cup PowerSources
    \cup OperandSources \cup TypedSources \cup ConditionalSources
    \cup NegationSources \cup StraySources \cup TypedIfSources

\* Source texts handed to Lexer::lex, each one literal: the digits of an
\* integer; the digits of an integer, `.` and further digits; a string
\* between double quotes; `true`, `false`, `null`.  With each text the
\* token and the value it writes.
RECURSIVE DigitsOf(_)
DigitsOf(n) ==
    IF n < 10 THEN <<DigitChars[n + 1]>>
    ELSE DigitsOf(n \div 10) \o <<DigitChars[(n % 10) + 1]>>

RECURSIVE Decimal(_, _, _)
Decimal(fraction, i, value) ==
    IF i > Len(fraction) THEN value
    ELSE Decimal(fraction, i + 1, 10 * value + fraction[i])

IntegerCase(n) ==
    [text |-> DigitsOf(n), token |-> TokInt(n), value |-> ValueInteger(n)]

FloatCase(n, fraction) ==
    LET f == <<Decimal(fraction, 1, n), Len(fraction)>>
    IN  [text |-> DigitsOf(n) \o <<".">>
                  \o [i \in 1..Len(fraction) |-> DigitChars[fraction[i] + 1]],
         token |-> TokFloat(f[1], f[2]), value |-> ValueFloat(f)]

StringCase(characters) ==
    LET s == Collect(characters, 1, Len(characters))
    IN  [text |-> <<"\"">> \o characters \o <<"\"">>,
         token |-> TokStr(s), value |-> ValueString(s)]

LiteralCases ==
    {IntegerCase(n) : n \in {0, 7, 42, INT_MAX}}
    \cup {FloatCase(f[1], f[2]) :
              f \in {<<3, <<1, 4>>>>, <<1, <<5>>>>, <<0, <<2, 5>>>>,
                     <<12, <<5>>>>, <<2, <<5, 0>>>>, <<10, <<0, 0, 1>>>>}}
    \cup {StringCase(characters) :
              characters \in {<<"h", "i">>, <<>>, <<"a", " ", "1">>}}
    \cup {[text |-> <<"t", "r", "u", "e">>, token |-> TokTrue,
           value |-> ValueBoolean(TRUE)],
          [text |-> <<"f", "a", "l", "s", "e">>, token |-> TokFalse,
           value |-> ValueBoolean(FALSE)],
          [text |-> <<"n", "u", "l", "l">>, token |-> TokNull,
           value |-> ValueNone]}

LiteralTexts == {c.text : c \in LiteralCases}

\* `f x = x`, newline, `f 42`
ProgramText ==
    <<"f", " ", "x", " ", "=", " ", "x", "\n", "f", " ", "4", "2">>

\* Source texts with comments: `1 -- c`, newline, `2`; `1 -- c`;
\* `1 {- c -} + 2`; `{- c -}x`; `{- a {- b -} c -} 7`; and `1 + 2`, which
\* has none.
CommentTexts ==
    {<<"1", " ", "-", "-", " ", "c", "\n", "2">>,
     <<"1", " ", "-", "-", " ", "c">>,
     <<"1", " ", "{", "-", " ", "c", " ", "-", "}", " ", "+", " ", "2">>,
     <<"{", "-", " ", "c", " ", "-", "}", "x">>,
     <<"{", "-", " ", "a", " ", "{", "-", " ", "b", " ", "-", "}", " ", "c",
       " ", "-", "}", " ", "7">>,
     <<"1", " ", "+", " ", "2">>}


\* Source texts that end inside a string or a block comment: `"ab`, `"`,
\* `1 "`, `{- c`, `1 {- {- c -}`; and closed ones: `"ab"`, `{- c -}`.
OpenTexts ==
    {<<"\"", "a", "b">>, <<"\"">>, <<"1", " ", "\"">>,
     <<"{", "-", " ", "c">>,
     <<"1", " ", "{", "-", " ", "{", "-", " ", "c", " ", "-", "}">>}

ClosedTexts ==
    {<<"\"", "a", "b", "\"">>, <<"{", "-", " ", "c", " ", "-", "}">>}


Texts ==
    LiteralTexts \cup {ProgramText} \cup CommentTexts \cup OpenTexts
    \cup ClosedTexts

\* Statement lists handed to `interpret` directly.  parser.rs builds no
\* Statement::Variable, so the programs that have one are put together
\* from parsed pieces: `f x = x`, then the variable v bound to the
\* expression `f <argument>`, then the expression statement `v + 1`.
ParsedStatement(bare) == parse(Locate(bare)).statements[1]

VariableProgram(argument) ==
    <<ParsedStatement(<<TokId("f"), TokId("x"), Tok("Equal"), TokId("x")>>),
      Variable(TokId("v") @@ [location |-> Location(1, 0)],
               ParsedStatement(<<TokId("f")>> \o argument).expression,
               Location(1, 0)),
      ParsedStatement(<<TokId("v"), Tok("Plus"), TokInt(1)>>)>>

\* `c z = 1`, the variable h bound to the lambda `x $ c 0`, `h 0`,
\* `c z = <v>`, `h 0`.
RebindLambdaProgram(v) ==
    <<ParsedStatement(<<TokId("c"), TokId("z"), Tok("Equal"), TokInt(1)>>),
      Variable(TokId("h") @@ [location |-> Location(1, 0)],
               ParsedStatement(<<TokId("x"), Tok("Dollar"), TokId("c"),
                                 TokInt(0)>>).expression,
               Location(1, 0)),
      ParsedStatement(<<TokId("h"), TokInt(0)>>),
      ParsedStatement(<<TokId("c"), TokId("z"), Tok("Equal"), TokInt(v)>>),
      ParsedStatement(<<TokId("h"), TokInt(0)>>)>>

RebindLambdaPrograms == {RebindLambdaProgram(v) : v \in RebindValues}

VariablePrograms ==
    {VariableProgram(argument) : argument \in LazyArguments}
    \cup RebindLambdaPrograms

(***************************************************************************)
(* The run: Parser::parse, then the loop of Interpreter::interpret.        *)
(***************************************************************************)
NoOutcome == [status |-> "None"]

InterpreterNew ==
    [environment |-> 1, frames |-> <<EnvironmentNew>>, printed |-> <<>>,
     trace |-> <<>>]

Init ==
    /\ overflow_checks \in BOOLEAN
    /\ \/ /\ source \in Texts
          /\ tokens = <<>>
          /\ phase = "source"
          /\ statements = <<>>
       \/ /\ source = <<>>
          /\ tokens \in Sources
          /\ phase = "lexed"
          /\ statements = <<>>
       \/ /\ source = <<>>
          /\ tokens = <<>>
          /\ phase = "parsed"
          /\ statements \in VariablePrograms
    /\ pc = 1
    /\ interpreter = InterpreterNew
    /\ outcome = NoOutcome

\* `let tokens = lexer.lex(source)?` of run, on the Result r of lex.
Lexed(r) ==
    /\ CASE r.status = "Ok" ->
              /\ tokens' = r.tokens
              /\ phase' = "lexed"
              /\ outcome' = outcome
         [] r.status = "Err" ->
              /\ tokens' = tokens
              /\ phase' = "failed"
              /\ outcome' = [status |-> "Err", error |-> r.error]
         [] r.status = "Abort" ->
              /\ tokens' = tokens
              /\ phase' = "aborted"
              /\ outcome' = [status |-> "Abort", reason |-> r.reason]
    /\ UNCHANGED <<source, statements, pc, interpreter, overflow_checks>>

Lex ==
    /\ phase = "source"
    /\ Lexed(lex(source))

\* `let ast = parser.parse(tokens)?` of run, on the Result r of parse.
Parsed(r) ==
    /\ IF r.ok
       THEN /\ statements' = r.statements
            /\ phase' = "parsed"
            /\ outcome' = outcome
       ELSE /\ statements' = statements
            /\ phase' = "failed"
            /\ outcome' = [status |-> "Err", error |-> r.error]
    /\ UNCHANGED <<source, tokens, pc, interpreter, overflow_checks>>

Parse ==
    /\ phase = "lexed"
    /\ Parsed(parse(tokens))

\* Executed going on with the next statement after an error.
ExecutedAll(r) ==
    /\ interpreter' = r.I
    /\ CASE r.status = "Ok" ->
              /\ pc' = pc + 1
              /\ phase' = phase
              /\ outcome' = outcome
         [] r.status = "Err" ->
              /\ pc' = pc + 1
              /\ phase' = phase
              /\ outcome' = [status |-> "Err", error |-> r.error]
         [] r.status = "Abort" ->
              /\ pc' = pc
              /\ phase' = "aborted"
              /\ outcome' = [status |-> "Abort", reason |-> r.reason]
    /\ UNCHANGED <<source, tokens, statements, overflow_checks>>

\* One iteration of `for statement in statements { self.execute(statement)?; }`
\* whose statement has the given kind and whose execute returned r.
Executed(r) ==
    /\ interpreter' = r.I
    /\ CASE r.status = "Ok" ->
              /\ pc' = pc + 1
              /\ phase' = phase
              /\ outcome' = outcome
         [] r.status = "Err" ->
              /\ pc' = pc
              /\ phase' = "failed"
              /\ outcome' = [status |-> "Err", error |-> r.error]
         [] r.status = "Abort" ->
              /\ pc' = pc
              /\ phase' = "aborted"
              /\ outcome' = [status |-> "Abort", reason |-> r.reason]
    /\ UNCHANGED <<source, tokens, statements, overflow_checks>>

AtStatement(kind) ==
    /\ phase = "parsed"
    /\ pc <= Len(statements)
    /\ statements[pc].kind = kind

Fresh(I) == [I EXCEPT !.trace = <<>>]

ExecuteDeclaration ==
    /\ AtStatement("Declaration")
    /\ Executed(execute_declaration(statements[pc], Fresh(interpreter)))

ExecuteDefinition ==
    /\ AtStatement("Definition")
    /\ Executed(execute_definition(statements[pc], Fresh(interpreter)))

ExecuteExpression ==
    /\ AtStatement("Expression")
    /\ Executed(execute_expression(statements[pc], Fresh(interpreter)))

ExecuteVariable ==
    /\ AtStatement("Variable")
    /\ Executed(execute_variable(statements[pc], Fresh(interpreter)))

\* The `Ok(())` of interpret after the last statement.
InterpretReturn ==
    /\ phase = "parsed"
    /\ pc > Len(statements)
    /\ phase' = "done"
    /\ outcome' = [status |-> "Ok"]
    /\ UNCHANGED <<source, tokens, statements, pc, interpreter, overflow_checks>>

Next ==
    \/ Lex
    \/ Parse
    \/ ExecuteDeclaration
    \/ ExecuteDefinition
    \/ ExecuteExpression
    \/ ExecuteVariable
    \/ InterpretReturn

Spec == Init /\ [][Next]_vars

(***************************************************************************)
(* Properties.                                                             *)
(***************************************************************************)
Final == phase \in {"done", "failed", "aborted"}

\* The nodes a token stream ts is expected to parse to, by token position.
LiteralAt(ts, i) == Literal(ts[i], ts[i].location)
IdentifierAt(ts, i) == Identifier(ts[i], ts[i].location)
BinaryAt(left, ts, i, right) == Binary(left, ts[i], right, ts[i].location)

\* Whether the identifier `name` occurs in the expression e.
RECURSIVE References(_, _)
References(e, name) ==
    CASE e.kind = "Unary" -> References(e.expression, name)
      [] e.kind = "Binary" ->
             References(e.left, name) \/ References(e.right, name)
      [] e.kind = "Call" ->
             References(e.function, name) \/ References(e.argument, name)
      [] e.kind = "Identifier" -> e.token.value = TokenValueIdentifier(name)
      [] e.kind = "If" ->
             \/ \E i \in 1..Len(e.branches) :
                    References(e.branches[i][1], name)
                    \/ References(e.branches[i][2], name)
             \/ References(e.otherwise, name)
      [] e.kind = "Lambda" -> References(e.body, name)
      [] e.kind = "Literal" -> FALSE

Trace == interpreter.trace

\* C1 (as claimed): call-by-need.  A call of a user-defined function goes
\* straight from binding the parameter to evaluating the body, without
\* evaluating the argument; the thunk of an argument whose parameter the
\* body never references is never forced; and `(x y $ x) 1 (1 / 0)` ends
\* with the value Integer(1), never with DivisionByZero.
C1_CallByNeed ==
    /\ \A i \in 1..Len(Trace) :
          Trace[i].event = "call" =>
             /\ i < Len(Trace) =>
                   Trace[i + 1] = [event |-> "evaluate",
                                   expression |-> Trace[i].body,
                                   environment |-> Trace[i].frame]
             /\ ~References(Trace[i].body, Trace[i].parameter) =>
                   \A j \in (i + 1)..Len(Trace) :
                      ~ /\ Trace[j].event = "force"
                        /\ Trace[j].expression = Trace[i].argument
                        /\ Trace[j].environment = Trace[i].environment
    /\ (tokens = LazyLambdaSource /\ Final) =>
          /\ outcome = [status |-> "Ok"]
          /\ interpreter.printed = <<ValueInteger(1)>>

\* The nodes and the value the programs of CurrySources are expected to
\* give, for n parameters.
CurryBodyNode(ts, n) ==
    CASE n = 1 -> IdentifierAt(ts, 4)
      [] n = 2 -> BinaryAt(IdentifierAt(ts, 5), ts, 6, IdentifierAt(ts, 7))
      [] n = 3 -> BinaryAt(BinaryAt(IdentifierAt(ts, 6), ts, 7,
                                    IdentifierAt(ts, 8)),
                           ts, 9, IdentifierAt(ts, 10))

CurryDefinitionNode(ts, n) ==
    LET body == CurryBodyNode(ts, n)
        location == body.location
    IN  Definition(ts[1], ts[2],
            CASE n = 1 -> body
              [] n = 2 -> Lambda(ts[3], body, location)
              [] n = 3 -> Lambda(ts[3], Lambda(ts[4], body, location),
                                 location),
            location)

CurryValue(n) == CASE n = 1 -> 7 [] n = 2 -> 7 - 2 [] n = 3 -> (7 - 2) - 1

\* C2: currying.  `f p1 ... pn = body` parses to the Definition of f with
\* parameter p1 and body Lambda(p2, ... Lambda(pn, body)); applied to n
\* arguments it yields the body's value with pi bound to the i-th argument,
\* applied to fewer it yields a Function (of the next parameter); after
\* `add a b = a + b`, `add 2 3` is Integer(5) and `add 2` a Function.
C2_Currying ==
    /\ \A n \in 1..3, k \in 0..3 :
          (tokens = CurrySource(n, k) /\ phase # "lexed") =>
             /\ Len(statements) = 2
             /\ statements[1] = CurryDefinitionNode(tokens, n)
             /\ (Final /\ k <= n) =>
                   /\ outcome = [status |-> "Ok"]
                   /\ Len(interpreter.printed) = 1
                   /\ IF k = n
                      THEN interpreter.printed[1] = ValueInteger(CurryValue(n))
                      ELSE /\ interpreter.printed[1].tag = "Function"
                           /\ interpreter.printed[1].parameter = tokens[k + 2]
    /\ (tokens = AddSource(<<TokInt(2), TokInt(3)>>) /\ Final) =>
          interpreter.printed = <<ValueInteger(5)>>
    /\ (tokens = AddSource(<<TokInt(2)>>) /\ Final) =>
          /\ Len(interpreter.printed) = 1
          /\ interpreter.printed[1].tag = "Function"

\* C2 witness: `f a b c = a - b - c` applied to 7, 2 and 1 printed 4.
C2_Witness ==
    /\ tokens = CurrySource(3, 3)
    /\ phase = "done"
    /\ interpreter.printed = <<ValueInteger(4)>>

\* The left-nested Call chain of the arguments of ApplicationSource(kinds).
ApplicationWidth(kind) == IF kind = "parenthesized" THEN 3 ELSE 1

ApplicationArgumentNode(ts, kind, position) ==
    CASE kind = "identifier" -> IdentifierAt(ts, position)
      [] kind = "literal" -> LiteralAt(ts, position)
      [] kind = "parenthesized" -> LiteralAt(ts, position + 1)

RECURSIVE ApplicationNode(_, _, _, _, _)
ApplicationNode(ts, kinds, i, position, callee) ==
    IF i > Len(kinds) THEN callee
    ELSE LET argument == ApplicationArgumentNode(ts, kinds[i], position)
         IN  ApplicationNode(ts, kinds, i + 1,
                             position + ApplicationWidth(kinds[i]),
                             Call(callee, argument, argument.location))

\* C3 (as claimed): application by juxtaposition is left-associative for
\* identifier, literal and parenthesized arguments alike: `f a1 ... an`
\* parses to Call(...Call(Call(f, a1), a2)..., an).
C3_LeftAssociativeApplication ==
    \A kinds \in ApplicationKindSequences :
        (tokens = ApplicationSource(kinds) /\ phase # "lexed") =>
           LET node == ApplicationNode(tokens, kinds, 1, 2,
                                       IdentifierAt(tokens, 1))
           IN  statements = <<ExpressionStatement(node, node.location)>>

\* The rank of a binary operator in the table of binding strengths, and
\* the two shapes of `a op1 b op2 c`.
TableRank(kind) ==
    CASE kind \in {"BangEqual", "EqualEqual", "Less", "LessEqual", "Greater",
                   "GreaterEqual"} -> 1
      [] kind \in {"Plus", "Minus"} -> 2
      [] kind \in {"Star", "Slash", "Percent"} -> 3
      [] kind = "StarStar" -> 4
      [] kind = "Pipe" -> 5
      [] kind = "Caret" -> 6
      [] kind = "Ampersand" -> 7

RightNested(ts) ==
    BinaryAt(LiteralAt(ts, 1), ts, 2,
             BinaryAt(LiteralAt(ts, 3), ts, 4, LiteralAt(ts, 5)))

LeftNested(ts) ==
    BinaryAt(BinaryAt(LiteralAt(ts, 1), ts, 2, LiteralAt(ts, 3)), ts, 4,
             LiteralAt(ts, 5))

SingleExpression(node) == <<ExpressionStatement(node, node.location)>>

\* C4: precedence.  When hi binds strictly tighter than lo, `a lo b hi c`
\* parses to Binary(a, lo, Binary(b, hi, c)) and `a hi b lo c` to
\* Binary(Binary(a, hi, b), lo, c); `3 + 4 * 2` evaluates to 11.
C4_Precedence ==
    /\ (tokens \in PrecedenceSources /\ phase # "lexed") =>
          /\ TableRank(tokens[4].kind) > TableRank(tokens[2].kind) =>
                statements = SingleExpression(RightNested(tokens))
          /\ TableRank(tokens[2].kind) > TableRank(tokens[4].kind) =>
                statements = SingleExpression(LeftNested(tokens))
    /\ (tokens = PrecedenceSource(3, "Plus", 4, "Star", 2) /\ Final) =>
          /\ outcome = [status |-> "Ok"]
          /\ interpreter.printed = <<ValueInteger(11)>>

\* C4 witness: `3 + 4 * 2` parsed right-nested and printed 11.
C4_Witness ==
    /\ tokens = PrecedenceSource(3, "Plus", 4, "Star", 2)
    /\ phase = "done"
    /\ statements = SingleExpression(RightNested(tokens))
    /\ interpreter.printed = <<ValueInteger(11)>>

\* The sources `a ** b ** c`.
ExponentiationSources ==
    {PrecedenceSource(o[1], "StarStar", o[2], "StarStar", o[3]) :
        o \in PrecedenceOperands}

\* C5 (as claimed): `a ** b ** c` parses to Binary(a, **, Binary(b, **, c))
\* and `2 ** 3 ** 2` evaluates to 512.
C5_RightAssociative ==
    /\ (tokens \in ExponentiationSources /\ phase # "lexed") =>
          statements = SingleExpression(RightNested(tokens))
    /\ (tokens = PrecedenceSource(2, "StarStar", 3, "StarStar", 2) /\ Final) =>
          interpreter.printed = <<ValueInteger(512)>>

\* C5 (amended): exponentiation is left-associative, as every binary
\* operator is: `a ** b ** c` parses to Binary(Binary(a, **, b), **, c),
\* and `2 ** 3 ** 2` evaluates to 64.
C5_LeftAssociative ==
    /\ (tokens \in ExponentiationSources /\ phase # "lexed") =>
          statements = SingleExpression(LeftNested(tokens))
    /\ (tokens = PrecedenceSource(2, "StarStar", 3, "StarStar", 2) /\ Final) =>
          /\ outcome = [status |-> "Ok"]
          /\ interpreter.printed = <<ValueInteger(64)>>

\* C5 witness: `2 ** 3 ** 2` parsed left-nested and printed 64.
C5_Witness ==
    /\ tokens = PrecedenceSource(2, "StarStar", 3, "StarStar", 2)
    /\ phase = "done"
    /\ statements = SingleExpression(LeftNested(tokens))
    /\ interpreter.printed = <<ValueInteger(64)>>

\* The exact mathematical result of `l op r`.
Exact(l, op, r) ==
    CASE op = "Plus" -> l + r
      [] op = "Minus" -> l - r
      [] op = "Star" -> l * r

\* C6 (as claimed): `+`, `-` and `*` on two Integers return the exact
\* result when it fits the integer width and fail with Overflow when it
\* does not; they never wrap around and never abort the process.
C6_CheckedArithmetic ==
    \A l \in ArithmeticOperands, r \in ArithmeticOperands,
       op \in {"Plus", "Minus", "Star"} :
        (tokens = ArithmeticSource(l, op, r) /\ Final) =>
           IF FitsInteger(Exact(l, op, r))
           THEN /\ outcome = [status |-> "Ok"]
                /\ interpreter.printed = <<ValueInteger(Exact(l, op, r))>>
           ELSE /\ outcome.status = "Err"
                /\ outcome.error.kind = "Overflow"

\* The sources `l / 0` and `l % 0` with Integer and with Float operands.
IntegerZeroDivisorSources ==
    {ArithmeticSource(l, op, 0) :
        l \in ArithmeticOperands, op \in {"Slash", "Percent"}}
    \cup {FloatSource(TokInt(5), op, TokInt(0)) : op \in {"Slash", "Percent"}}

FloatZeroDivisorSources ==
    {FloatSource(l, op, r) :
        l \in {FloatFive, FloatZero}, op \in {"Slash", "Percent"},
        r \in {FloatZero}}

\* C7 (as claimed): `l / r` and `l % r` with a right operand that is zero
\* fail with DivisionByZero and never panic, for Integer and for Float
\* operands.
C7_DivisionByZero ==
    (tokens \in IntegerZeroDivisorSources \cup FloatZeroDivisorSources
     /\ Final) =>
        /\ outcome.status = "Err"
        /\ outcome.error.kind = "DivisionByZero"

\* C7 (amended): `l / r` and `l % r` on two Integers with r zero fail with
\* DivisionByZero; on two Floats (`5.0 / 0.0`, `5.0 % 0.0`) they fail with
\* InvalidArguments, `/` and `%` being defined on Integers only; neither
\* panics.
C7_DivisionByZeroIntegers ==
    /\ (tokens \in IntegerZeroDivisorSources /\ Final) =>
          /\ outcome.status = "Err"
          /\ outcome.error.kind = "DivisionByZero"
    /\ (tokens \in FloatZeroDivisorSources /\ Final) =>
          /\ outcome.status = "Err"
          /\ outcome.error.kind = "InvalidArguments"

\* C7 witness: `5 / 0` failed with DivisionByZero at the operator.
C7_Witness ==
    /\ tokens = ArithmeticSource(5, "Slash", 0)
    /\ phase = "failed"
    /\ outcome = [status |-> "Err",
                  error |-> Error("DivisionByZero", tokens[2].location)]

\* The expressions evaluate was entered with while the current statement
\* was executed.
Evaluated ==
    {Trace[i].expression :
        i \in {j \in 1..Len(Trace) : Trace[j].event = "evaluate"}}

\* The position in the history of the first evaluation of e, 0 if none.
FirstEvaluation(e) ==
    IF e \in Evaluated
    THEN CHOOSE i \in 1..Len(Trace) :
            /\ Trace[i].event = "evaluate"
            /\ Trace[i].expression = e
            /\ \A j \in 1..(i - 1) :
                  ~(Trace[j].event = "evaluate" /\ Trace[j].expression = e)
    ELSE 0

\* The conditions of IfSources: `true` selects its branch, `(1 / 0)` fails,
\* `false` and `0` do neither.
Selects(condition) ==
    /\ condition.kind = "Literal"
    /\ condition.token.value = TokenValueBoolean(TRUE)
Fails(expression) == expression.kind = "Binary"

IfParts(e) ==
    {e.branches[1][1], e.branches[1][2], e.branches[2][1], e.branches[2][2],
     e.otherwise}

\* What evaluating the selected body b ends with.
EndsAs(b) ==
    IF Fails(b)
    THEN /\ outcome = [status |-> "Err",
                       error |-> Error("DivisionByZero", b.location)]
         /\ interpreter.printed = <<>>
    ELSE /\ outcome = [status |-> "Ok"]
         /\ interpreter.printed = <<ValueInteger(b.token.value.v)>>

\* C8: an If evaluates its conditions in declaration order up to the
\* first that is Boolean(true), then that branch's body and nothing
\* else of the If; with no true condition it evaluates every condition
\* and then only `otherwise`.  `if false then (1/0) elif true then 2 else
\* (1/0)` evaluates to 2.
C8_BranchSelection ==
    /\ (tokens \in IfSources /\ Final) =>
          LET e == statements[1].expression
              c1 == e.branches[1][1]
              b1 == e.branches[1][2]
              c2 == e.branches[2][1]
              b2 == e.branches[2][2]
              parts == Evaluated \cap IfParts(e)
          IN  /\ e.kind = "If" /\ Len(e.branches) = 2
              /\ Cardinality(IfParts(e)) = 5
              /\ CASE Selects(c1) -> parts = {c1, b1} /\ EndsAs(b1)
                   [] Fails(c1) -> parts = {c1} /\ outcome.status = "Err"
                   [] ~Selects(c1) /\ ~Fails(c1) /\ Selects(c2) ->
                          parts = {c1, c2, b2} /\ EndsAs(b2)
                   [] ~Selects(c1) /\ ~Fails(c1) /\ Fails(c2) ->
                          parts = {c1, c2} /\ outcome.status = "Err"
                   [] OTHER ->
                          parts = {c1, c2, e.otherwise} /\ EndsAs(e.otherwise)
              /\ c2 \in parts => FirstEvaluation(c1) < FirstEvaluation(c2)
              /\ \A part \in parts :
                    Cardinality({i \in 1..Len(Trace) :
                        Trace[i].event = "evaluate"
                        /\ Trace[i].expression = part}) = 1
    /\ (tokens = IfSource(<<TokFalse>>, DivisionByZeroTokens, <<TokTrue>>,
                          <<TokInt(2)>>, DivisionByZeroTokens) /\ Final) =>
          /\ outcome = [status |-> "Ok"]
          /\ interpreter.printed = <<ValueInteger(2)>>

\* C8 witness: of `if false then (1/0) elif true then 2 else (1/0)` the
\* two conditions and the second body were evaluated, and 2 was printed.
C8_Witness ==
    /\ tokens = IfSource(<<TokFalse>>, DivisionByZeroTokens, <<TokTrue>>,
                         <<TokInt(2)>>, DivisionByZeroTokens)
    /\ phase = "done"
    /\ interpreter.printed = <<ValueInteger(2)>>
    /\ Evaluated \cap IfParts(statements[1].expression) =
          {statements[1].expression.branches[1][1],
           statements[1].expression.branches[2][1],
           statements[1].expression.branches[2][2]}

\* C9: a Thunk is never observable: evaluate never returns one, force
\* never returns one (so no operator, If condition or callee position
\* inspects one), none is printed and none is bound in the root frame,
\* where Definition and Variable statements bind.
C9_ThunkNeverObservable ==
    /\ \A i \in 1..Len(Trace) :
          Trace[i].event \in {"return", "forced"} => Trace[i].tag # "Thunk"
    /\ \A i \in 1..Len(interpreter.printed) :
          interpreter.printed[i].tag # "Thunk"
    /\ \A name \in DOMAIN interpreter.frames[1].identifiers :
          interpreter.frames[1].identifiers[name].tag # "Thunk"

\* C9 witness: the variable v was bound to the value of `f 1`, where
\* f x = x, which forced the thunk of x.
C9_Witness ==
    /\ statements = VariableProgram(<<TokInt(1)>>)
    /\ pc = 3
    /\ \E i \in 1..Len(Trace) : Trace[i].event = "force"
    /\ interpreter.frames[1].identifiers["v"] = ValueInteger(1)

\* C10: lexical scoping.  The frame a call evaluates the body in has the
\* closure's captured environment as its parent, never the caller's
\* environment; so with `g y = a` and `f a = g 1`, `f 5` fails with
\* InvalidIdentifier at the `a` of g's body, although the caller's frame
\* binds a.
C10_LexicalScoping ==
    /\ \A i \in 1..Len(Trace) :
          Trace[i].event = "call" =>
             /\ interpreter.frames[Trace[i].frame].parent = Trace[i].captured
             /\ Trace[i].captured # Trace[i].environment
    /\ (tokens = ScopeSource("a") /\ Final) =>
          outcome = [status |-> "Err",
                     error |-> Error("InvalidIdentifier", tokens[4].location)]

\* C10 witness: `f 5` called g from a frame that binds a, and the lookup
\* of a in g's body failed.
C10_Witness ==
    /\ tokens = ScopeSource("a")
    /\ phase = "failed"
    /\ outcome.error.kind = "InvalidIdentifier"
    /\ \E i \in 1..Len(Trace) :
          /\ Trace[i].event = "call"
          /\ "a" \in DOMAIN interpreter.frames[Trace[i].environment].identifiers
          /\ Trace[i].body = IdentifierAt(tokens, 4)

\* The position in the history of the evaluation of the Call expression
\* that made the call logged at position i: the last evaluate of a Call
\* with that argument before i whose evaluations of the callee have all
\* returned.
Entered(from, to) ==
    Cardinality({k \in from..to : Trace[k].event = "evaluate"})
Left(from, to) ==
    Cardinality({k \in from..to : Trace[k].event = "return"})

CallSite(i) ==
    CHOOSE j \in 1..(i - 1) :
        /\ Trace[j].event = "evaluate"
        /\ Trace[j].expression.kind = "Call"
        /\ Trace[j].expression.argument = Trace[i].argument
        /\ Entered(j + 1, i - 1) = Left(j + 1, i - 1)
        /\ \A k \in (j + 1)..(i - 1) :
              ~(/\ Trace[k].event = "evaluate"
                /\ Trace[k].expression.kind = "Call"
                /\ Trace[k].expression.argument = Trace[i].argument
                /\ Entered(k + 1, i - 1) = Left(k + 1, i - 1))

\* C11: an argument thunk is evaluated against the caller's bindings.
\* Every call binds its parameter to a Thunk of the argument expression
\* and the environment the Call expression was evaluated in, which is
\* not the callee's new frame; forcing a thunk evaluates its expression
\* in the thunk's environment; and with `f x = x` and `g x = f x`, where
\* caller and callee use the same parameter name, `g 5` ends with 5.
C11_ThunkInCallerEnvironment ==
    /\ \A i \in 1..Len(Trace) :
          Trace[i].event = "call" =>
             /\ Trace[CallSite(i)].environment # Trace[i].frame
             /\ Trace[i].parameter
                   \in DOMAIN interpreter.frames[Trace[i].frame].identifiers
             /\ interpreter.frames[Trace[i].frame].identifiers[Trace[i].parameter]
                   = ValueThunk(Trace[i].argument,
                                Trace[CallSite(i)].environment)
    /\ \A i \in 1..Len(Trace) :
          Trace[i].event = "force" =>
             /\ i < Len(Trace)
             /\ Trace[i + 1].event = "evaluate"
             /\ Trace[i + 1].expression = Trace[i].expression
             /\ Trace[i + 1].environment = Trace[i].environment
             /\ \E j \in 1..(i - 1) :
                   /\ Trace[j].event = "call"
                   /\ Trace[j].argument = Trace[i].expression
                   /\ Trace[CallSite(j)].environment = Trace[i].environment
    /\ (tokens = ThunkChainSource /\ Final) =>
          /\ outcome = [status |-> "Ok"]
          /\ interpreter.printed = <<ValueInteger(5)>>

\* C11 witness: in `g 5` the call of f was made from the frame of g,
\* which binds x as the frame of f does, and the thunk of f's argument x
\* was forced in the frame of g; 5 was printed.
C11_Witness ==
    /\ tokens = ThunkChainSource
    /\ phase = "done"
    /\ interpreter.printed = <<ValueInteger(5)>>
    /\ \E i, k \in 1..Len(Trace) :
          /\ i < k
          /\ Trace[i].event = "call"
          /\ Trace[i].parameter = "x"
          /\ Trace[i].environment # 1
          /\ "x" \in DOMAIN interpreter.frames[Trace[i].environment].identifiers
          /\ Trace[k].event = "force"
          /\ Trace[k].expression = Trace[i].argument
          /\ Trace[k].environment = Trace[i].environment

\* C12 (as claimed): environment restoration.  Every statement is executed
\* with the root frame as the current environment, so after the Call
\* (and the thunks forced during it) of a statement has finished, with a
\* value or with an error that propagated out of it, the interpreter's
\* current environment is the root frame again.
C12_EnvironmentRestored ==
    phase \in {"parsed", "done", "failed"} =>
        interpreter.environment = InterpreterNew.environment

\* The programs that call a closure before and after c is rebound.
Rebinds ==
    \/ tokens \in RebindSources
    \/ statements \in RebindLambdaPrograms

\* The value the rebinding statement (the fourth) gives c.
Rebound == statements[4].body.token.value.v

\* C13 (as claimed): closure capture.  A closure called after the
\* defining scope has rebound one of its free identifiers yields the
\* same result as the call made before the rebinding.
C13_ClosureCapture ==
    (Rebinds /\ phase = "done") =>
        /\ Len(interpreter.printed) = 2
        /\ interpreter.printed[2] = interpreter.printed[1]

\* C13 (amended): a closure resolves its free identifiers through the
\* frame that was current when it was created, as that frame is at the
\* time of the lookup: after the defining scope has rebound c, the call
\* of the closure yields the value of the new binding, 1 before and the
\* rebound value after.  The programs end without error.
C13_ClosureSeesRebinding ==
    /\ (Rebinds /\ Final) => phase = "done"
    /\ (Rebinds /\ phase = "done") =>
          interpreter.printed = <<ValueInteger(1), ValueInteger(Rebound)>>
    /\ (Rebinds /\ phase = "parsed" /\ pc > 3) =>
          interpreter.printed[1] = ValueInteger(1)

\* C13 witness: `f 0` printed 1, then `c z = 2` was executed, then `f 0`
\* printed 2.
C13_Witness ==
    /\ tokens = RebindSource(2)
    /\ phase = "done"
    /\ interpreter.printed = <<ValueInteger(1), ValueInteger(2)>>

\* The statements that bind a name in the current environment, and the
\* names the statements before the k-th bind.
Binds(j) == statements[j].kind \in {"Definition", "Variable"}

BoundBefore(k) ==
    {statements[j].name.value.v : j \in {i \in 1..(k - 1) : Binds(i)}}

PrintsBefore(k) ==
    Cardinality({j \in 1..(k - 1) : statements[j].kind = "Expression"})

RootIdentifiers == interpreter.frames[1].identifiers

\* What the statements before pc have done, and nothing of a later one.
ExecutedInOrder ==
    phase \in {"parsed", "failed", "done"} =>
        /\ pc \in 1..(Len(statements) + 1)
        /\ DOMAIN RootIdentifiers = BoundBefore(pc)
        /\ Len(interpreter.printed) = PrintsBefore(pc)
        /\ phase = "done" =>
              pc = Len(statements) + 1 /\ outcome = [status |-> "Ok"]
        /\ phase = "failed" => outcome.status = "Err"

\* A step of interpret executes the statement at pc and moves to the
\* next one, or fails at pc and leaves the bindings and the output as
\* they were; after a failure there is no further step.
StopsAtError ==
    /\ phase # "failed"
    /\ phase = "parsed" =>
          \/ /\ phase' = "parsed"
             /\ pc' = pc + 1
             /\ outcome' = outcome
          \/ /\ phase' = "failed"
             /\ pc' = pc
             /\ pc <= Len(statements)
             /\ outcome'.status = "Err"
             /\ interpreter'.printed = interpreter.printed
             /\ interpreter'.frames[1] = interpreter.frames[1]
          \/ phase' = "aborted"
          \/ /\ phase' = "done"
             /\ pc' = pc
             /\ pc = Len(statements) + 1

\* C14: interpret executes the statements in order and stops at the
\* first that fails: the error is returned, no later statement is
\* executed (none of its bindings or prints happens), and the bindings
\* of the statements before the failing one remain in the environment.
C14_StopsAtFirstError == [][StopsAtError]_vars /\ []ExecutedInOrder

\* C14 witness: of `f x = x`, `1 / 0`, `g y = y`, `f 2` the run failed at
\* the second statement with f bound, g unbound and nothing printed.
C14_Witness ==
    /\ tokens \in InterruptSources
    /\ phase = "failed"
    /\ pc = 2
    /\ outcome.error.kind = "DivisionByZero"
    /\ DOMAIN RootIdentifiers = {"f"}
    /\ interpreter.printed = <<>>

\* C15 (as claimed): statement termination.  A statement must be
\* followed by a newline, a semicolon or the end of input: the token
\* stream of `1 2` (a complete statement, then another token) makes parse
\* fail with UnexpectedToken, and `1 ; 2` parses to two statements.
C15_StatementTermination ==
    /\ (tokens \in UnterminatedSources /\ phase # "lexed") =>
          /\ phase = "failed"
          /\ outcome.status = "Err"
          /\ outcome.error.kind = "UnexpectedToken"
    /\ (tokens = SemicolonSource /\ phase = "parsed") =>
          /\ Len(statements) = 2
          /\ statements[1].expression = LiteralAt(tokens, 1)
          /\ statements[2].expression = LiteralAt(tokens, 3)
    /\ (tokens = SemicolonSource /\ Final) => phase = "done"

LiteralCase == CHOOSE c \in LiteralCases : c.text = source

\* C17 (as claimed): literal round trip.  Tokenizing a source that is
\* one literal gives one token of the literal's kind and value (a run of
\* digits an Integer; digits, `.` and one or more digits a Float, as in
\* `1.5`; a quoted string a String; `true`, `false`, `null`), parsing it
\* gives a single Literal expression, and evaluating it gives the value
\* the source writes.
C17_LiteralRoundTrip ==
    source \in LiteralTexts =>
        /\ phase \notin {"failed", "aborted"}
        /\ phase \in {"lexed", "parsed", "done"} =>
              /\ Len(tokens) = 1
              /\ tokens[1].kind = LiteralCase.token.kind
              /\ tokens[1].value = LiteralCase.token.value
        /\ phase \in {"parsed", "done"} =>
              /\ Len(statements) = 1
              /\ statements[1].kind = "Expression"
              /\ statements[1].expression = LiteralAt(tokens, 1)
        /\ phase = "done" =>
              interpreter.printed = <<LiteralCase.value>>

Frames == interpreter.frames

\* C18: a closure's captured environment is a new child frame of the
\* frame current at creation, not that frame itself.  Every Function
\* bound in a frame captures a frame that has a parent and no bindings
\* of its own, and a Function bound in the root frame (all of them are
\* created by top-level statements) captures a child of the root frame.
\* A call binds its parameter in a further new frame, a child of the
\* captured one, and nowhere else: the captured frame stays empty and
\* the root frame holds the names its statements bound and no other.
\* Bindings made in the creating frame after the closure was created
\* are visible to the body: `f x = g x`, `g y = y`, `f 4` gives 4, and the
\* recursive `r n = if n == 0 then 0 else r (n - 1)`, `r 2` gives 0.
C18_ClosureChildFrame ==
    /\ \A k \in 1..Len(Frames) :
          \A name \in DOMAIN Frames[k].identifiers :
             Frames[k].identifiers[name].tag = "Function" =>
                LET e == Frames[k].identifiers[name].environment
                IN  /\ e # k
                    /\ Frames[e].identifiers = EmptyIdentifiers
                    /\ Frames[e].parent # NoParent
                    /\ k = 1 => Frames[e].parent = 1
    /\ \A i \in 1..Len(Trace) :
          Trace[i].event = "call" =>
             /\ Trace[i].frame # Trace[i].captured
             /\ Trace[i].frame # Frames[Trace[i].captured].parent
             /\ Frames[Trace[i].frame].parent = Trace[i].captured
             /\ DOMAIN Frames[Trace[i].frame].identifiers = {Trace[i].parameter}
             /\ Frames[Trace[i].captured].identifiers = EmptyIdentifiers
    /\ phase \in {"parsed", "done", "failed"} =>
          DOMAIN RootIdentifiers = BoundBefore(pc)
    /\ (tokens = LaterSource /\ Final) =>
          phase = "done" /\ interpreter.printed = <<ValueInteger(4)>>
    /\ (tokens = RecursionSource /\ Final) =>
          phase = "done" /\ interpreter.printed = <<ValueInteger(0)>>
    /\ (tokens = ShadowSource /\ Final) =>
          /\ phase = "done"
          /\ interpreter.printed = <<ValueInteger(2)>>
          /\ RootIdentifiers["a"].tag = "Function"

\* C18 witness: `r 2` called r three times, each call resolving r through
\* the parent link of the captured frame, and printed 0.
C18_Witness ==
    /\ tokens = RecursionSource
    /\ phase = "done"
    /\ interpreter.printed = <<ValueInteger(0)>>
    /\ Cardinality({i \in 1..Len(Trace) : Trace[i].event = "call"}) = 3
    /\ \A i \in 1..Len(Trace) :
          Trace[i].event = "call" =>
             /\ Trace[i].captured = RootIdentifiers["r"].environment
             /\ Frames[Trace[i].captured].parent = 1

\* The frames from frame k outward along the parent links.
RECURSIVE ParentChain(_, _)
ParentChain(frames, k) ==
    IF k = NoParent THEN <<>>
    ELSE <<k>> \o ParentChain(frames, frames[k].parent)

\* The positions in the chain of k of the frames that bind name.
Holders(frames, k, name) ==
    {i \in 1..Len(ParentChain(frames, k)) :
        name \in DOMAIN frames[ParentChain(frames, k)[i]].identifiers}

\* The binding of name in the nearest frame of the chain of k.
Nearest(frames, k, name) ==
    LET chain == ParentChain(frames, k)
        first == CHOOSE i \in Holders(frames, k, name) :
                     \A j \in Holders(frames, k, name) : i <= j
    IN  frames[chain[first]].identifiers[name]

\* Every evaluation of an identifier went on with the binding of the
\* nearest frame that has the name: a Thunk was forced next, any other
\* value was returned as it is; with no frame that has the name the
\* evaluation was the last thing the statement did, and it failed with
\* InvalidIdentifier there.
LookupsNearest ==
    \A i \in 1..Len(Trace) :
       (Trace[i].event = "evaluate" /\ Trace[i].expression.kind = "Identifier") =>
          LET name == Trace[i].expression.token.value.v
              k == Trace[i].environment
          IN  IF Holders(Frames, k, name) = {}
              THEN /\ i = Len(Trace)
                   /\ phase = "failed"
                   /\ outcome.error =
                         Error("InvalidIdentifier",
                               Trace[i].expression.token.location)
              ELSE /\ i < Len(Trace)
                   /\ IF Nearest(Frames, k, name).tag = "Thunk"
                      THEN /\ Trace[i + 1].event = "force"
                           /\ Trace[i + 1].expression =
                                 Nearest(Frames, k, name).expression
                           /\ Trace[i + 1].environment =
                                 Nearest(Frames, k, name).environment
                      ELSE /\ Trace[i + 1].event = "forced"
                           /\ Trace[i + 1].tag = Nearest(Frames, k, name).tag

\* The name the statement at pc binds in the root frame, if it binds one.
BoundNow ==
    IF phase = "parsed" /\ pc <= Len(statements) /\ Binds(pc)
    THEN {statements[pc].name.value.v}
    ELSE {}

\* A step leaves every frame that exists its parent link and its
\* bindings; only the root frame, the current one when a statement is
\* executed, gets the binding of the name the statement binds.
FramesKept ==
    /\ Len(interpreter'.frames) >= Len(Frames)
    /\ \A k \in 1..Len(Frames) :
          /\ interpreter'.frames[k].parent = Frames[k].parent
          /\ k # 1 => interpreter'.frames[k] = Frames[k]
          /\ DOMAIN Frames[k].identifiers
                \subseteq DOMAIN interpreter'.frames[k].identifiers
          /\ DOMAIN interpreter'.frames[k].identifiers
                \subseteq DOMAIN Frames[k].identifiers \cup BoundNow
          /\ \A name \in DOMAIN Frames[k].identifiers \ BoundNow :
                interpreter'.frames[k].identifiers[name] =
                   Frames[k].identifiers[name]

\* C19: environment frames.  get(name) returns the binding of the
\* nearest frame on the parent chain, the frame itself first, that has
\* the name, or nothing when none has it; set(name, value) inserts or
\* overwrites in the frame it is called on and leaves the bindings and
\* the parent link of every other frame as they were, over every
\* sequence of definitions, variable bindings and calls of the model.
C19_EnvironmentFrames == [][FramesKept]_vars /\ []LookupsNearest

\* C19 witness: in `a z = 1`, `f a = a`, `f 2` the identifier a was looked
\* up in the frame of the call, which binds a as the root frame does;
\* the nearer binding won, 2 was printed, and the root frame still binds
\* a to the Function.
C19_Witness ==
    /\ tokens = ShadowSource
    /\ phase = "done"
    /\ interpreter.printed = <<ValueInteger(2)>>
    /\ RootIdentifiers["a"].tag = "Function"
    /\ \E i \in 1..Len(Trace) :
          /\ Trace[i].event = "evaluate"
          /\ Trace[i].expression.kind = "Identifier"
          /\ Trace[i].expression.token.value.v = "a"
          /\ Cardinality(Holders(Frames, Trace[i].environment, "a")) = 2

\* The frames the values bound in frame k hold: the environments of its
\* Function and Thunk values.
Held(k) ==
    {Frames[k].identifiers[name].environment :
        name \in {n \in DOMAIN Frames[k].identifiers :
                     Frames[k].identifiers[n].tag \in {"Function", "Thunk"}}}

\* Whether frame d is a descendant of frame k: k is on the parent chain
\* of d and is not d.
IsDescendant(d, k) ==
    /\ d # k
    /\ \E i \in 1..Len(ParentChain(Frames, d)) : ParentChain(Frames, d)[i] = k

\* C20 (as claimed): the frame reference graph is acyclic.  Counting the
\* parent links and the environments held by the Function and Thunk
\* values stored in a frame, no frame holds a reference to one of its
\* own descendants.
C20_AcyclicFrames ==
    \A k \in 1..Len(Frames) :
       \A d \in Held(k) : ~IsDescendant(d, k)

\* l to the power r for r >= 0, as long as every partial product stays
\* within the integer width; beyond it the power does not fit either.
RECURSIVE ExactPower(_, _)
ExactPower(l, r) ==
    IF r = 0 THEN [fits |-> TRUE, v |-> 1]
    ELSE IF l \in {-1, 0, 1}
    THEN [fits |-> TRUE, v |-> IF r % 2 = 0 THEN l * l ELSE l]
    ELSE IF r > IntBits THEN [fits |-> FALSE]
    ELSE LET p == ExactPower(l, r - 1)
         IN  IF p.fits /\ FitsInteger(p.v * l)
             THEN [fits |-> TRUE, v |-> p.v * l]
             ELSE [fits |-> FALSE]

PrintedInteger(n) ==
    /\ outcome = [status |-> "Ok"]
    /\ interpreter.printed = <<ValueInteger(n)>>

FailedWith(kind) ==
    /\ outcome.status = "Err"
    /\ outcome.error.kind = kind

\* C21: integer exponentiation `l ** r`.  When r fits u32 the result is l
\* to the power r if that fits the integer width and Overflow otherwise;
\* when r does not fit and l is 0 or 1 the result is l, for negative and
\* for too large r alike; otherwise a too large r fails with Overflow and
\* a negative r with InvalidArguments.
C21_Exponentiation ==
    \A l \in PowerBases, r \in PowerExponents :
        (tokens = PowerSource(l, r) /\ Final) =>
           IF 0 <= r /\ r <= U32_MAX
           THEN IF ExactPower(l, r).fits
                THEN PrintedInteger(ExactPower(l, r).v)
                ELSE FailedWith("Overflow")
           ELSE IF l \in {0, 1} THEN PrintedInteger(l)
           ELSE IF r > 0 THEN FailedWith("Overflow")
           ELSE FailedWith("InvalidArguments")

\* C21 witness: `(1) ** (r)` with r the least exponent beyond u32 printed
\* 1, and `(2) ** (-1)` failed with InvalidArguments.
C21_Witness ==
    \/ /\ tokens = PowerSource(1, U32_MAX + 1)
       /\ phase = "done"
       /\ interpreter.printed = <<ValueInteger(1)>>
    \/ /\ tokens = PowerSource(2, -1)
       /\ phase = "failed"
       /\ outcome.error.kind = "InvalidArguments"

\* The error kind an operand of OperandSources fails with, "" if it
\* evaluates to a value.
OperandError(operand) ==
    CASE operand.kind = "Binary" -> "DivisionByZero"
      [] operand.kind = "Identifier" -> "InvalidIdentifier"
      [] OTHER -> ""

\* The position in the history of the return of the evaluation of the
\* whole statement's expression, 0 if it did not return.
Applied ==
    IF Len(Trace) > 0 /\ Trace[Len(Trace)].event = "return"
    THEN Len(Trace) ELSE 0

\* C22: binary operators never short-circuit.  For every binary operator
\* the left operand is evaluated, then the right operand, then the
\* operator is applied: an error of the right operand surfaces whatever
\* the left operand's value is (`false & (1 / 0 == 0)` fails with
\* DivisionByZero), and when both operands fail the left operand's error
\* is the one reported.
C22_NoShortCircuit ==
    (tokens \in OperandSources /\ Final) =>
        LET e == statements[1].expression
        IN  /\ e.kind = "Binary"
            /\ e.left # e.right
            /\ e.left \in Evaluated
            /\ IF OperandError(e.left) # ""
               THEN FailedWith(OperandError(e.left))
               ELSE /\ e.right \in Evaluated
                    /\ FirstEvaluation(e.left) < FirstEvaluation(e.right)
                    /\ Applied # 0 => FirstEvaluation(e.right) < Applied
                    /\ OperandError(e.right) # "" =>
                          FailedWith(OperandError(e.right))

\* C22 witness: `false & (1 / 0 == 0)` evaluated both operands and failed
\* with DivisionByZero.
C22_Witness ==
    /\ tokens = OperandSource(<<TokFalse>>, "Ampersand",
                              <<LP, TokInt(1), Tok("Slash"), TokInt(0),
                                Tok("EqualEqual"), TokInt(0), RP>>)
    /\ phase = "failed"
    /\ outcome.error.kind = "DivisionByZero"
    /\ statements[1].expression.right \in Evaluated

\* The combinations of operand types the operators are defined on: two
\* Integers for every binary operator, two Strings for `+`, two Booleans
\* for `& | ^` and the six comparisons; a Boolean for `!`, an Integer for
\* unary `-`.
DefinedBinary(left, op, right) ==
    \/ left = "Integer" /\ right = "Integer"
    \/ left = "String" /\ right = "String" /\ op = "Plus"
    \/ /\ left = "Boolean" /\ right = "Boolean"
       /\ op \in {"Ampersand", "Pipe", "Caret", "BangEqual", "EqualEqual",
                  "Greater", "GreaterEqual", "Less", "LessEqual"}

DefinedUnary(op, type) ==
    \/ op = "Bang" /\ type = "Boolean"
    \/ op = "Minus" /\ type = "Integer"

\* C23: operator type errors.  A binary operator applied to a pair of
\* operand types outside the defined combinations, `!` applied to a
\* non-Boolean and unary `-` applied to a non-Integer fail with
\* InvalidArguments; so do mixed Integer/Boolean operands, Float operands
\* and the equality of two Strings.  The defined combinations do not.
C23_TypeErrors ==
    /\ \A left \in ValueTypes, op \in BinaryOperators, right \in ValueTypes :
          (tokens = TypedBinarySource(left, op, right) /\ Final) =>
             (FailedWith("InvalidArguments") <=>
                 ~DefinedBinary(left, op, right))
    /\ \A op \in {"Bang", "Minus"}, type \in ValueTypes :
          (tokens = TypedUnarySource(op, type) /\ Final) =>
             (FailedWith("InvalidArguments") <=> ~DefinedUnary(op, type))

\* C23 witness: `"a" == "a"` failed with InvalidArguments at the operator.
C23_Witness ==
    /\ tokens = TypedBinarySource("String", "EqualEqual", "String")
    /\ phase = "failed"
    /\ outcome = [status |-> "Err",
                  error |-> Error("InvalidArguments", tokens[2].location)]

\* The If node the complete conditional with n elif branches is expected
\* to parse to.
ConditionalNode(ts, n) ==
    If([j \in 1..(n + 1) |->
           <<LiteralAt(ts, 4 * j - 2), LiteralAt(ts, 4 * j)>>],
       LiteralAt(ts, 4 * n + 6), ts[2].location)

ParsedConditional(n) ==
    (tokens = ConditionalSource(n, 0, "EOF") /\ phase # "lexed") =>
        statements = SingleExpression(ConditionalNode(tokens, n))

ParseFailedWith(kind, location) ==
    /\ phase = "failed"
    /\ outcome = [status |-> "Err", error |-> Error(kind, location)]

\* C24 (as claimed): every `then` and the final `else` are mandatory.
\* When the token after a condition is not `then`, parsing fails with
\* IncompleteIf located at that condition; when the token after the last
\* branch body is neither `elif` nor `else`, with IncompleteIf located at
\* the condition of the `if`; on success the branches are stored in
\* source order with the `otherwise`.
C24_IncompleteIf ==
    \A n \in 0..MaxElifs :
       /\ ParsedConditional(n)
       /\ \A kind \in MissingKinds :
             /\ \A j \in 1..(n + 1) :
                   (tokens = ConditionalSource(n, ThenPosition(j), kind)
                    /\ phase # "lexed") =>
                       ParseFailedWith("IncompleteIf",
                                       tokens[ThenPosition(j) - 1].location)
             /\ (tokens = ConditionalSource(n, ElsePosition(n), kind)
                 /\ phase # "lexed") =>
                    ParseFailedWith("IncompleteIf", tokens[2].location)

\* C24 (amended): every `then` and the final `else` are mandatory.  When
\* the token after a condition is not `then`, or the token after the last
\* branch body is neither `elif` nor `else`, parsing fails with
\* IncompleteIf located at the first condition, the one that follows
\* `if`, also when the `then` that is missing is the one of an `elif`; on
\* success the branches are stored in source order with the `otherwise`,
\* the If node located at the first condition.
C24_IncompleteIfAtFirstCondition ==
    \A n \in 0..MaxElifs :
       /\ ParsedConditional(n)
       /\ \A kind \in MissingKinds, p \in KeywordPositions(n) :
             (tokens = ConditionalSource(n, p, kind) /\ phase # "lexed") =>
                ParseFailedWith("IncompleteIf", tokens[2].location)

\* C24 witness: `if 10 then 20 elif 11 = 21 else 30`, the `then` of the
\* elif missing, failed with IncompleteIf at the first condition.
C24_Witness ==
    /\ tokens = ConditionalSource(1, ThenPosition(2), "Equal")
    /\ ParseFailedWith("IncompleteIf", tokens[2].location)

\* C25 (as claimed): executing a Declaration has a defined outcome.  It is
\* a no-op that leaves the environment unchanged and lets the following
\* statements run, or it returns an error; it never aborts the
\* interpreter.
C25_DeclarationOutcome ==
    (tokens \in {DeclarationSource, DeclarationThenSource} /\ Final) =>
        /\ statements[1].kind = "Declaration"
        /\ outcome.status \in {"Ok", "Err"}
        /\ outcome.status = "Ok" =>
              /\ interpreter.frames = InterpreterNew.frames
              /\ tokens = DeclarationThenSource =>
                    interpreter.printed = <<ValueInteger(1)>>

\* The source without its comments: each `--` comment up to but excluding
\* its newline and each closed, possibly nested `{- ... -}` comment
\* removed.
StartsAt(text, i, first, second) ==
    i < Len(text) /\ text[i] = first /\ text[i + 1] = second

RECURSIVE LineEnd(_, _)
LineEnd(text, i) ==
    IF i > Len(text) \/ text[i] = "\n" THEN i ELSE LineEnd(text, i + 1)

RECURSIVE Elide(_, _, _)
Elide(text, i, nesting) ==
    IF i > Len(text) THEN <<>>
    ELSE IF nesting > 0
    THEN IF StartsAt(text, i, "{", "-") THEN Elide(text, i + 2, nesting + 1)
         ELSE IF StartsAt(text, i, "-", "}")
         THEN Elide(text, i + 2, nesting - 1)
         ELSE Elide(text, i + 1, nesting)
    ELSE IF StartsAt(text, i, "-", "-") THEN Elide(text, LineEnd(text, i), 0)
    ELSE IF StartsAt(text, i, "{", "-") THEN Elide(text, i + 2, 1)
    ELSE <<text[i]>> \o Elide(text, i + 1, 0)

\* The kinds and values of a token sequence, without the locations.
KindsAndValues(ts) ==
    [i \in 1..Len(ts) |-> [kind |-> ts[i].kind, value |-> ts[i].value]]

\* C26 (as claimed): comments are elided by the tokenizer.  The kinds and
\* values of the tokens of a source are those of the tokens of the same
\* source without its comments: no token stands in place of a comment and
\* no character that follows a comment is lost.
C26_CommentsElided ==
    (source \in CommentTexts /\ phase = "lexed") =>
        /\ lex(Elide(source, 1, 0)).status = "Ok"
        /\ KindsAndValues(tokens) =
              KindsAndValues(lex(Elide(source, 1, 0)).tokens)

\* C27 (as claimed): integer division, remainder and negation are total
\* apart from division by zero.  For Integers l and r with r not zero,
\* the least integer and -1 among them, `l / r` and `l % r` return the
\* truncated quotient and the remainder or fail with an error value;
\* unary `-` on any Integer, the least among them, returns its negation
\* or fails with an error value; none of them aborts the process.
C27_TotalDivision ==
    /\ \A l \in ArithmeticOperands, r \in ArithmeticOperands \ {0} :
          /\ (tokens = ArithmeticSource(l, "Slash", r) /\ Final) =>
                PrintedInteger(TruncDiv(l, r)) \/ outcome.status = "Err"
          /\ (tokens = ArithmeticSource(l, "Percent", r) /\ Final) =>
                PrintedInteger(TruncRem(l, r)) \/ outcome.status = "Err"
    /\ \A n \in ArithmeticOperands :
          (tokens = NegationSource(n) /\ Final) =>
             PrintedInteger(-n) \/ outcome.status = "Err"

\* An iteration that was entered at the token index i and ended with the
\* Result r advanced the index, within the input, or returned an error.
Progress(ts, r, i) == r.ok => (i < r.index /\ r.index <= Len(ts) + 1)

\* The iterations of the three loops, entered at any index of the input:
\* of `parse` (a Newline is skipped, else a statement is parsed), of
\* parse_expression (parse_infix on a token that binds tighter) and of
\* parse_call (parse_expression on a token that starts an argument).
LoopsProgress ==
    \A i \in 1..Len(tokens) :
       /\ tokens[i].kind # "Newline" =>
             Progress(tokens, parse_statement(tokens, i), i)
       /\ PrecedenceFrom(tokens[i].kind) > PrecedenceNone =>
             Progress(tokens,
                      parse_infix(tokens, i, LiteralAt(tokens, i),
                                  PrecedenceFrom(tokens[i].kind)),
                      i)
       /\ tokens[i].kind \in
             {"Identifier", "LeftParenthesis", "True", "False", "Null",
              "Float", "Integer", "String", "Underscore", "If"} =>
             Progress(tokens,
                      parse_expression(tokens, i, PrecedenceApplication), i)

\* What `parse` ended with: every statement, the index at the end of the
\* input, or an error and no statement.
ParseEnded ==
    IF parse(tokens).ok
    THEN /\ phase # "failed"
         /\ statements = parse(tokens).statements
         /\ parse(tokens).index = Len(tokens) + 1
    ELSE /\ phase = "failed"
         /\ statements = <<>>
         /\ outcome = [status |-> "Err", error |-> parse(tokens).error]
         /\ "statements" \notin DOMAIN parse(tokens)

\* C28: the parser terminates on every finite token sequence.  Every
\* iteration of the loop of `parse`, of the loop of parse_expression and
\* of the loop of parse_call advances the token index or returns an
\* error, and `parse` ends with the full statement list, the index at the
\* end of the input, or with an error and no partial statement list.
C28_ParserTerminates ==
    /\ (tokens # <<>> /\ phase = "lexed") => LoopsProgress
    /\ (tokens # <<>> /\ phase \in {"parsed", "failed"} /\ pc = 1
        /\ interpreter = InterpreterNew) => ParseEnded

\* C28 witness: `x = (` ended with an error and no statement, and the two
\* statements of `f a b c = a - b - c`, `f 7 2 1` with all of them.
C28_Witness ==
    \/ /\ tokens = Locate(<<TokId("x"), Tok("Equal"), LP>>)
       /\ phase = "failed"
       /\ statements = <<>>
    \/ /\ tokens = CurrySource(3, 3)
       /\ phase = "parsed"
       /\ Len(statements) = 2

\* C29 (as claimed): the tokenizer terminates on every finite input,
\* returning a token list or an error: a string literal that is not
\* closed ends with UnterminatedString, and a block comment that is not
\* closed by the end of the input ends the scan as well.
C29_LexerTerminates ==
    (source \in Texts /\ phase # "source") =>
        /\ phase # "aborted"
        /\ lex(source).status \in {"Ok", "Err"}
        /\ (source \in OpenTexts /\ source[Len(source)] = "\"") =>
              /\ phase = "failed"
              /\ outcome.error.kind = "UnterminatedString"

\* The conditions of TypedIfSources with false in place of every value
\* that is not a Boolean.
AsBoolean(condition) ==
    IF condition \in {<<TokTrue>>, DivisionByZeroTokens} THEN condition
    ELSE <<TokFalse>>

\* What `if c1 then 21 elif c2 then 22 else 23` ends with when both
\* conditions are Booleans or fail.
BooleanIfEnds(c1, c2) ==
    CASE c1 = <<TokTrue>> -> PrintedInteger(21)
      [] c1 = DivisionByZeroTokens -> FailedWith("DivisionByZero")
      [] c1 = <<TokFalse>> /\ c2 = <<TokTrue>> -> PrintedInteger(22)
      [] c1 = <<TokFalse>> /\ c2 = DivisionByZeroTokens ->
             FailedWith("DivisionByZero")
      [] c1 = <<TokFalse>> /\ c2 = <<TokFalse>> -> PrintedInteger(23)

\* C30: an If condition that evaluates to a value that is no Boolean (an
\* Integer, a String, None, a Float or a Function) is treated exactly
\* like Boolean(false).  Its branch is skipped without an error, and the
\* evaluation goes on with the next condition or with `otherwise`; only
\* an error raised while the condition is evaluated ends the If.
C30_NonBooleanCondition ==
    \A c1 \in TypedConditions, c2 \in TypedConditions :
       (tokens = TypedIfSource(c1, c2) /\ Final) =>
          LET e == statements[1].expression
          IN  /\ BooleanIfEnds(AsBoolean(c1), AsBoolean(c2))
              /\ AsBoolean(c1) = <<TokFalse>> =>
                    /\ e.branches[1][2] \notin Evaluated
                    /\ e.branches[2][1] \in Evaluated
              /\ (AsBoolean(c1) = <<TokFalse>>
                  /\ AsBoolean(c2) = <<TokFalse>>) =>
                    /\ e.branches[2][2] \notin Evaluated
                    /\ e.otherwise \in Evaluated

\* C30 witness: `if 1 then 21 elif "a" then 22 else 23` printed 23.
C30_Witness ==
    /\ tokens = TypedIfSource(<<TokInt(1)>>, <<TokStr("a")>>)
    /\ phase = "done"
    /\ interpreter.printed = <<ValueInteger(23)>>

====
